---- MODULE Spec2Model ----
(***************************************************************************)
(* Model of the ql_tracker background telemetry pipeline:                  *)
(*   EventQueue            services/queue/event_queue.py                   *)
(*   LogWorkerService      services/worker/log_worker.py                   *)
(*   StorageService        services/storage/storage_service.py             *)
(*   BackgroundExecutorService                                             *)
(*                         services/background_executor/...                *)
(*   track                 tracker.py                                      *)
(*                                                                         *)
(* Events are identified by their insertion index: the n-th event that     *)
(* Queue.put inserts is the number n.  Threads are modelled one atomic     *)
(* step per shared-memory operation (a lock section, one Queue.put, one    *)
(* Queue.get, one Event.set / wait / clear, one store call).               *)
(***************************************************************************)
EXTENDS Integers, Sequences, FiniteSets, TLC

(***************************************************************************)
(* Bounds of the model.  The source uses maxsize = 1000, a wake threshold  *)
(* of 10 and a drain cap of 100; the model keeps their order               *)
(* (threshold < drain cap < capacity) at a size TLC can enumerate.         *)
(***************************************************************************)
\* EventQueue(maxsize): capacity of the buffer (default 1000 in the source)
maxsize == 4

\* the literal of `if current_size >= 10` in EventQueue.put
WakeThreshold == 2

\* the max_size the Worker passes to get_batch (100 in the source)
BatchMax == 3

\* total number of put calls explored
MaxEvents == 5

\* number of store calls that may raise
MaxStoreFailures == 1

\* the producer threads (the callers of put)
Producers == {1, 2}

\* The thread objects of the Worker in the pipeline specification: one, so
\* that start() is explored there when the thread of the previous start() has
\* exited (WorkerThreads below allows a second one).
ThreadIds == {1}

VARIABLES
    queue,                  \* EventQueue._queue: FIFO of events
    event_count,            \* EventQueue._event_count
    new_event_signal,       \* EventQueue._new_event_signal (threading.Event)
    inserted,               \* history: number of events Queue.put has inserted
    prod,                   \* per producer thread: position inside put, and current_size
    running,                \* LogWorkerService._running
    thread,                 \* LogWorkerService._thread (0 = None)
    threads,                \* per loop thread: position inside _run, and the local events list
    total_events_processed, \* LogWorkerService._total_events_processed
    storeLog,               \* history: the calls of backend.store, in call order
    ctl,                    \* the thread calling start()/stop(): "idle" or "joining"
    waitMark,               \* history: `inserted` when the Worker began to wait on an
                            \* empty queue with no put under way, while it still waits
                            \* and the puts since then ran one after the other (else -1)
    owed,                   \* history: last event in the queue at a set of the signal
                            \* that no wait of the Worker has seen yet and that is
                            \* still in the queue (0: none)
    failMark,               \* history: `inserted` when store last raised (-1: never)
    wk_last,                \* history: the latest call of start() / stop() on the
                            \* Worker and whether it found the Worker running
    drains,                 \* history, per live loop thread: the get_batch calls it
                            \* began since the latest stop() that found the Worker
                            \* running, with no start() since (-1: no such stop)
    due,                    \* history: the last event that was in the queue when the
                            \* running Worker's wait last timed out, while that event
                            \* is in the queue and the cycle of that wake is not over
                            \* (0: none)
    gb_pc,                  \* a direct caller of get_batch: "none" or "returned"
    gb_in,                  \* history: the buffer when get_batch was called
    gb_max,                 \* the max_size argument of that call
    gb_out,                 \* the list that call returned
    services,               \* BackgroundExecutorService._services: the registry
    mgr_running,            \* BackgroundExecutorService._running
    mgr_lock,               \* BackgroundExecutorService._lock: TRUE while held
    mgr_pc,                 \* the caller of the manager: "idle", "starting", "stopping"
    mgr_i,                  \* the iteration of the for loop the caller is at
    callLog,                \* history: the service methods the latest call invoked
    lastCall,               \* history: the latest manager operation, whether it got
                            \* past its early return, and which of start_all /
                            \* stop_all was called last before it
    reg,                    \* a second thread calling add_service: "idle" or "waiting"
    sd,                     \* _shutdown_hooks, the position of the atexit call of
                            \* _shutdown, and history: the stops and hooks invoked
                            \* in the current running period
                            \* for the manager's lock, and the service it registers
    sig,                    \* the signal handler of the manager: "none" (no signal
                            \* yet), its position inside _signal_handler, "blocked"
                            \* (waiting for the lock), or "exited" (process over)
    tr_pc,                  \* a call of a @track wrapper: position inside the wrapper
    tr_in,                  \* the inputs of that call
    tr_func,                \* history: the outcome of the wrapped function
    tr_exc,                 \* the exception `e` bound by the wrapper's except clause
    tr_caller,              \* history: the outcome the caller observes
    tr_events,              \* history: the events that call has put on the queue
    services_started,       \* QLTrackerInitializer._services_started
    instance,               \* QLTrackerInitializer._instance (0 = None)
    constructed,            \* history: number of instances super().__new__ has made
    cls_lock,               \* QLTrackerInitializer._lock: the thread holding it (0: free)
    g_initializer,          \* initialize.py's global _initializer (0 = None)
    fields_set,             \* whether __new__ has assigned the instance's attributes
    ini_configured,         \* whether _host and _api_key are both set
    event_queue,            \* QLTrackerInitializer._event_queue (0 = None), named by
                            \* the number of the pipeline the queue belongs to
    log_worker,             \* QLTrackerInitializer._log_worker (0 = None), likewise
    created,                \* history: number of pipelines (EventQueue, network
                            \* service, StorageService, LogWorkerService) created
    workers_started,        \* history: the pipelines whose LogWorkerService.start()
                            \* has been called
    start_called,           \* history: whether QLTrackerInitializer.start() was called
    init_returned,          \* history: whether some initialize_services() call on the
                            \* Initializer has returned normally
    ini,                    \* per thread using the Initializer: position, the call
                            \* under way, the instance obtained, the pipeline the
                            \* call created, and whether the call began after
                            \* init_returned
    storage_service,        \* the latest StorageService(...) call: whether it returned
                            \* an object, the backend it chose, the exception raised
    file,                   \* the content of the file at output_path, as characters
    posts,                  \* history: the requests session.post has sent, in order
    backendLog,             \* history: the batches passed to backend.store, in order
    st_last,                \* history: the latest call of StorageService.store or
                            \* _process_events, its outcome, and the state before it
    cf,                     \* QLTrackerInitializer._api_key and _host, the global
                            \* _config, the processing_interval_secs of the Worker
                            \* the wiring created (0: none), and as history the
                            \* inputs of the latest configure() call and the outcome
                            \* of the latest initialize_services() call
    fp                      \* a thread calling force_process(): position inside
                            \* _process_events, and the local events list

pipeVars == <<queue, event_count, new_event_signal, inserted, prod, running, thread,
              threads, total_events_processed, storeLog, ctl, waitMark, owed, failMark,
              wk_last, drains, due>>

gbVars == <<gb_pc, gb_in, gb_max, gb_out>>

mgrVars == <<services, mgr_running, mgr_lock, mgr_pc, mgr_i, callLog, lastCall, reg, sd,
             sig>>

trVars == <<tr_pc, tr_in, tr_func, tr_exc, tr_caller, tr_events, services_started>>

iniVars == <<instance, constructed, cls_lock, g_initializer, fields_set, ini_configured,
             event_queue, log_worker, created, workers_started, start_called,
             init_returned, ini>>

stVars == <<storage_service, file, posts, backendLog, st_last>>

\* the variables of the storage backends, of configure() and of force_process()
extVars == <<stVars, cf, fp>>

\* the variables of the other components, which the pipeline leaves alone
others == <<gbVars, mgrVars, trVars, iniVars, extVars>>

vars == <<pipeVars, gbVars, mgrVars, trVars, iniVars, extVars>>

----------------------------------------------------------------------------
(* Sequence helpers *)

Range(s) == {s[i] : i \in 1..Len(s)}

Iota(n) == [i \in 1..n |-> i]

RECURSIVE Concat(_)
Concat(ss) == IF ss = <<>> THEN <<>> ELSE Head(ss) \o Concat(Tail(ss))

Min(a, b) == IF a < b THEN a ELSE b

Max(a, b) == IF a > b THEN a ELSE b

----------------------------------------------------------------------------
(* EventQueue *)

QueueHasRoom_always(q) == TRUE

\* queue.Queue.put(block=True): possible only while the buffer has a free slot
QueueHasRoom(q) == Len(q) < maxsize

QueueInsert_front(q, e) == <<e>> \o q

\* queue.Queue.put: the item goes to the tail
QueueInsert(q, e) == Append(q, e)

\* EventQueue.get: the item at the head, or None (0) when Queue.get raises Empty
QueueFront(q) == IF q = <<>> THEN 0 ELSE Head(q)

QueueRest_peek(q) == q

\* the buffer after EventQueue.get
QueueRest(q) == IF q = <<>> THEN q ELSE Tail(q)

\* the test that decides whether put sets the wake signal
ShouldSignal(current_size) == current_size >= WakeThreshold

\* put, lines 40-42: under the lock, count the event and read the depth
PutLock(p) ==
    /\ prod[p].pc = "idle"
    /\ event_count < MaxEvents
    /\ event_count' = event_count + 1
    /\ prod' = [prod EXCEPT ![p] = [pc |-> "put", current_size |-> Len(queue)]]
    /\ waitMark' = IF \E o \in Producers : prod[o].pc # "idle" THEN -1 ELSE waitMark
    /\ UNCHANGED <<queue, new_event_signal, inserted, running, thread, threads,
                   total_events_processed, storeLog, ctl, owed, failMark,
                   wk_last, drains, due, others>>

\* put, line 44: self._queue.put(event) finds the buffer full and blocks
PutBlock(p) ==
    /\ prod[p].pc = "put"
    /\ ~QueueHasRoom(queue)
    /\ prod' = [prod EXCEPT ![p].pc = "blocked"]
    /\ UNCHANGED <<queue, event_count, new_event_signal, inserted, running, thread,
                   threads, total_events_processed, storeLog, ctl, waitMark, owed,
                   failMark, wk_last, drains, due, others>>

\* put, line 44: self._queue.put(event) inserts once the buffer has a free slot
PutInsert(p) ==
    /\ prod[p].pc \in {"put", "blocked"}
    /\ QueueHasRoom(queue)
    /\ inserted' = inserted + 1
    /\ queue' = QueueInsert(queue, inserted + 1)
    /\ prod' = [prod EXCEPT ![p] =
                    IF ShouldSignal(prod[p].current_size)
                    THEN [pc |-> "signal", current_size |-> 0]
                    ELSE [pc |-> "idle", current_size |-> 0]]
    /\ UNCHANGED <<event_count, new_event_signal, running, thread, threads,
                   total_events_processed, storeLog, ctl, waitMark, owed, failMark,
                   wk_last, drains, due, others>>

\* put, lines 45-46: self._new_event_signal.set()
PutSignal(p) ==
    /\ prod[p].pc = "signal"
    /\ new_event_signal' = TRUE
    /\ prod' = [prod EXCEPT ![p].pc = "idle"]
    /\ owed' = IF queue = <<>> THEN owed ELSE Max(owed, queue[Len(queue)])
    /\ UNCHANGED <<queue, event_count, inserted, running, thread, threads,
                   total_events_processed, storeLog, ctl, waitMark, failMark,
                   wk_last, drains, due, others>>

----------------------------------------------------------------------------
(* LogWorkerService *)

\* the owed (or due) event once the buffer is q: nothing is owed when every
\* event up to it has left the buffer
StillOwed(o, q) == IF q = <<>> \/ Head(q) > o THEN 0 ELSE o

\* new_total: the value line 97 of _process_events has computed and is about
\* to assign to _total_events_processed (0: the thread is not inside line 97)
NoThread == [pc |-> "none", events |-> <<>>, new_total |-> 0]

\* Thread.is_alive()
Alive(t) == threads[t].pc # "none"

\* the thread objects that can be alive: one per slot of `threads`
Slots == DOMAIN threads

\* the slot the next threading.Thread(...) occupies: the lowest free one
FreeSlot == CHOOSE t \in Slots : ~Alive(t) /\ \A u \in Slots : ~Alive(u) => t <= u

StartReturnsEarly_never(r) == FALSE

StartReturnsEarly_always(r) == TRUE

\* start(), lines 53-54: if self._running: return
StartReturnsEarly(r) == r

\* start(): under the lock, return if running, else set the flag, create the
\* thread and start it
WorkerStart ==
    /\ ctl = "idle"
    /\ IF StartReturnsEarly(running)
       THEN /\ wk_last' = "start_running"
            /\ UNCHANGED <<running, thread, threads, drains>>
       ELSE /\ \E t \in Slots : ~Alive(t)
            /\ wk_last' = "start"
            /\ running' = TRUE
            /\ thread' = FreeSlot
            /\ threads' = [threads EXCEPT ![FreeSlot].pc = "loop"]
            /\ drains' = [t \in Slots |-> -1]
    /\ UNCHANGED <<queue, event_count, new_event_signal, inserted, prod,
                   total_events_processed, storeLog, ctl, waitMark, owed, failMark,
                   due, others>>

\* stop(): clear the flag under the lock, then join the thread if it is alive
WorkerStop ==
    /\ ctl = "idle"
    /\ running' = FALSE
    /\ ctl' = IF thread # 0 /\ Alive(thread) THEN "joining" ELSE "idle"
    /\ wk_last' = IF running THEN "stop_running" ELSE "stop"
    /\ drains' = IF running THEN [t \in Slots |-> IF Alive(t) THEN 0 ELSE -1] ELSE drains
    /\ UNCHANGED <<queue, event_count, new_event_signal, inserted, prod, thread,
                   threads, total_events_processed, storeLog, waitMark, owed, failMark,
                   due, others>>

\* stop(), line 67: join(timeout=10.0) returns when the thread has exited or
\* when the timeout has elapsed
JoinReturn ==
    /\ ctl = "joining"
    /\ ctl' = "idle"
    /\ UNCHANGED <<queue, event_count, new_event_signal, inserted, prod, running,
                   thread, threads, total_events_processed, storeLog, waitMark, owed, failMark,
                   wk_last, drains, due, others>>

LoopContinues_always(r) == TRUE

\* _run, line 73: the test of `while self._running`
LoopContinues(r) == r

\* _run, line 73: while self._running
LoopTest(t) ==
    /\ threads[t].pc = "loop"
    /\ threads' = [threads EXCEPT ![t].pc = IF LoopContinues(running) THEN "wait" ELSE "none"]
    /\ drains' = IF LoopContinues(running) THEN drains ELSE [drains EXCEPT ![t] = -1]
    /\ waitMark' = IF running /\ queue = <<>> /\ \A p \in Producers : prod[p].pc = "idle"
                   THEN inserted ELSE -1
    /\ due' = 0
    /\ UNCHANGED <<queue, event_count, new_event_signal, inserted, prod, running,
                   thread, total_events_processed, storeLog, ctl, owed, failMark,
                   wk_last, others>>

\* _run, line 75: wait() returns at once when the signal is set
WakeBySignal(t) ==
    /\ threads[t].pc = "wait"
    /\ new_event_signal
    /\ threads' = [threads EXCEPT ![t].pc = "clear"]
    /\ waitMark' = -1
    /\ owed' = 0
    /\ UNCHANGED <<queue, event_count, new_event_signal, inserted, prod, running,
                   thread, total_events_processed, storeLog, ctl, failMark,
                   wk_last, drains, due, others>>

\* the processing_interval_secs the Initializer passes to the Worker
processing_interval_secs == 3

WaitTimesOut_never(timeout) == FALSE

\* threading.Event.wait(timeout): with a timeout (a number, not None) the wait
\* returns False once that time has passed without a set
WaitTimesOut(timeout) == timeout >= 0

\* _run, line 75: wait() returns after processing_interval_secs without a set
WakeByTimeout(t) ==
    /\ threads[t].pc = "wait"
    /\ ~new_event_signal
    /\ WaitTimesOut(processing_interval_secs)
    /\ threads' = [threads EXCEPT ![t].pc = "clear"]
    /\ waitMark' = -1
    /\ due' = IF running /\ queue # <<>> THEN queue[Len(queue)] ELSE 0
    /\ UNCHANGED <<queue, event_count, new_event_signal, inserted, prod, running,
                   thread, total_events_processed, storeLog, ctl, owed, failMark,
                   wk_last, drains, others>>

\* _run, line 77: self._wake_signal.clear()
ClearSignal(t) ==
    /\ threads[t].pc = "clear"
    /\ new_event_signal' = FALSE
    /\ threads' = [threads EXCEPT ![t] = [pc |-> "get_first", events |-> <<>>, new_total |-> 0]]
    /\ UNCHANGED <<queue, event_count, inserted, prod, running, thread,
                   total_events_processed, storeLog, ctl, waitMark, owed, failMark,
                   wk_last, drains, due, others>>

\* get_batch, lines 77-81: the first get; None ends the cycle with no store call
GetFirst(t) ==
    /\ threads[t].pc = "get_first"
    /\ IF QueueFront(queue) = 0
       THEN /\ threads' = [threads EXCEPT ![t].pc = "loop"]
            /\ UNCHANGED queue
       ELSE /\ threads' = [threads EXCEPT ![t] =
                    [pc |-> IF BatchMax - 1 >= 1 THEN "get_more" ELSE "store",
                     events |-> <<QueueFront(queue)>>, new_total |-> 0]]
            /\ queue' = QueueRest(queue)
    /\ owed' = StillOwed(owed, queue')
    /\ due' = StillOwed(due, queue')
    /\ drains' = IF drains[t] >= 0 THEN [drains EXCEPT ![t] = drains[t] + 1] ELSE drains
    /\ UNCHANGED <<event_count, new_event_signal, inserted, prod, running, thread,
                   total_events_processed, storeLog, ctl, waitMark, failMark,
                   wk_last, others>>

\* get_batch, lines 84-88: one more get(timeout=0); None breaks the loop
GetMore(t) ==
    /\ threads[t].pc = "get_more"
    /\ IF QueueFront(queue) = 0
       THEN /\ threads' = [threads EXCEPT ![t].pc = "store"]
            /\ UNCHANGED queue
       ELSE /\ threads' = [threads EXCEPT ![t] =
                    [pc |-> IF Len(threads[t].events) + 1 < BatchMax
                            THEN "get_more" ELSE "store",
                     events |-> Append(threads[t].events, QueueFront(queue)),
                     new_total |-> 0]]
            /\ queue' = QueueRest(queue)
    /\ owed' = StillOwed(owed, queue')
    /\ due' = StillOwed(due, queue')
    /\ UNCHANGED <<event_count, new_event_signal, inserted, prod, running, thread,
                   total_events_processed, storeLog, ctl, waitMark, failMark,
                   wk_last, drains, others>>

\* _process_events, lines 96-97: store returns, and line 97
\* (self._total_events_processed += len(events)) reads the attribute and adds
\* len(events) to the value read; no lock is held until it assigns the sum
StoreReturns(t) ==
    /\ threads[t].pc = "store"
    /\ storeLog' = Append(storeLog,
                          [events |-> threads[t].events, ok |-> TRUE])
    /\ threads' = [threads EXCEPT ![t] =
            [pc |-> "add", events |-> <<>>,
             new_total |-> total_events_processed + Len(threads[t].events)]]
    /\ UNCHANGED <<queue, event_count, new_event_signal, inserted, prod, running,
                   thread, total_events_processed, ctl, waitMark, owed, failMark,
                   wk_last, drains, due, others>>

\* _process_events, line 97: the sum is assigned to the attribute; lines
\* 100-103 print, and _run goes on with its loop
CounterAssign(t) ==
    /\ threads[t].pc = "add"
    /\ total_events_processed' = threads[t].new_total
    /\ threads' = [threads EXCEPT ![t] = [pc |-> "loop", events |-> <<>>, new_total |-> 0]]
    /\ UNCHANGED <<queue, event_count, new_event_signal, inserted, prod, running,
                   thread, storeLog, ctl, waitMark, owed, failMark,
                   wk_last, drains, due, others>>

AfterStoreRaised_dies == "none"

\* _process_events, lines 107-108: whether _process_events raises to _run
\* when store raised; `except Exception` catches the exception and prints it
ProcessEventsRaises(store_raised) == FALSE

\* _run, lines 79-85: where the loop thread goes after the try: to
\* time.sleep(1.0) ("backoff") when _process_events raised, else to the loop
\* test
AfterCycle(raised) == IF raised THEN "backoff" ELSE "loop"

\* where _run continues after store raised: the except of _process_events
\* (lines 107-108) swallows the exception, so _run goes on with its loop
AfterStoreRaised == AfterCycle(ProcessEventsRaises(TRUE))

RequeueAfterRaise_putback(q, events) == events \o q

\* what happens to the drained events when store raised: they were local to
\* _process_events and are dropped
RequeueAfterRaise(q, events) == q

\* _process_events, lines 96 and 107-108: store raises
StoreRaises(t) ==
    /\ threads[t].pc = "store"
    /\ Cardinality({i \in 1..Len(storeLog) : ~storeLog[i].ok}) < MaxStoreFailures
    /\ storeLog' = Append(storeLog,
                          [events |-> threads[t].events, ok |-> FALSE])
    /\ queue' = RequeueAfterRaise(queue, threads[t].events)
    /\ failMark' = inserted
    /\ threads' = [threads EXCEPT ![t] =
            [pc |-> AfterStoreRaised, events |-> <<>>, new_total |-> 0]]
    /\ UNCHANGED <<event_count, new_event_signal, inserted, prod, running, thread,
                   total_events_processed, ctl, waitMark, owed,
                   wk_last, drains, due, others>>

----------------------------------------------------------------------------
InitPipeline ==
    /\ queue = <<>>
    /\ event_count = 0
    /\ new_event_signal = FALSE
    /\ inserted = 0
    /\ prod = [p \in Producers |-> [pc |-> "idle", current_size |-> 0]]
    /\ running = FALSE
    /\ thread = 0
    /\ threads = [t \in ThreadIds |-> NoThread]
    /\ total_events_processed = 0
    /\ storeLog = <<>>
    /\ ctl = "idle"
    /\ waitMark = -1
    /\ owed = 0
    /\ failMark = -1
    /\ wk_last = "none"
    /\ drains = [t \in ThreadIds |-> -1]
    /\ due = 0

InitGb ==
    /\ gb_pc = "none"
    /\ gb_in = <<>>
    /\ gb_max = 0
    /\ gb_out = <<>>

\* A service is described by the lifecycle methods it has (hasattr) and by
\* whether a call of the method returns ("ok") or raises ("raises").
Svc(start, stop, force_flush) ==
    [start |-> start, stop |-> stop, force_flush |-> force_flush]

\* a service with no lifecycle method (also: no service, in `reg`)
NoService == Svc("absent", "absent", "absent")

\* BackgroundExecutorService.__init__
\* BackgroundExecutorService.__init__, line 33: no hook; the atexit call of
\* _shutdown (registered at line 36) has not begun
NoShutdown == [hooks |-> <<>>, atexit |-> "no", at_sig |-> "none", hook_i |-> 0,
               stopLog |-> <<>>, hookLog |-> <<>>]

InitMgr ==
    /\ services = <<>>
    /\ mgr_running = FALSE
    /\ mgr_lock = FALSE
    /\ mgr_pc = "idle"
    /\ mgr_i = 0
    /\ callLog = <<>>
    /\ lastCall = [op |-> "none", acted |-> FALSE, prev |-> "none"]
    /\ reg = [pc |-> "idle", svc |-> NoService]
    /\ sd = NoShutdown
    /\ sig = "none"

NoOutcome == [kind |-> "none", val |-> "none"]

NoInputs == [is_async |-> FALSE, enable_logging |-> FALSE, configured |-> FALSE,
             args_copyable |-> FALSE, result_copyable |-> FALSE]

InitTr ==
    /\ tr_pc = "idle"
    /\ tr_in = NoInputs
    /\ tr_func = NoOutcome
    /\ tr_exc = "none"
    /\ tr_caller = NoOutcome
    /\ tr_events = <<>>
    /\ services_started = FALSE

\* the threads that use the Initializer
Callers == {1, 2}

NoCall == [pc |-> "start", op |-> "none", inst |-> 0, mine |-> 0, after_ok |-> FALSE,
           out |-> "none", calls |-> 0]

\* initialize.py at import: no instance, no global, nothing wired
InitIni ==
    /\ instance = 0
    /\ constructed = 0
    /\ cls_lock = 0
    /\ g_initializer = 0
    /\ fields_set = FALSE
    /\ ini_configured = FALSE
    /\ event_queue = 0
    /\ log_worker = 0
    /\ created = 0
    /\ workers_started = {}
    /\ start_called = FALSE
    /\ init_returned = FALSE
    /\ ini = [th \in Callers |-> NoCall]

\* StorageService(...) has not been called
NoStorage == [arg |-> "none", backend |-> "none", exc |-> "none"]

\* no call yet; resp is the status code the server answered (0: no answer,
\* -1: no request was sent)
NoStoreCall == [op |-> "none", events |-> <<>>, out |-> "none", resp |-> -1,
                file0 |-> <<>>, posts0 |-> <<>>, log0 |-> <<>>]

\* config.py, lines 19-34: TrackerConfig() as the module creates it
DefaultConfig == [api_key |-> "none", host |-> "none", storage_backend |-> "remote",
                  queue_flush_interval_secs |-> 5]

NoConfigure == [api_key |-> "none", host |-> "none", path |-> "none",
                file |-> [api_key |-> "none", host |-> "none", backend |-> "none",
                          flush_interval_secs |-> 0],
                prev_api_key |-> "none", prev_host |-> "none"]

\* initialize_services() has not been called on the Initializer
NoWiring == [out |-> "none", services0 |-> <<>>, running0 |-> FALSE, started0 |-> FALSE,
             config0 |-> DefaultConfig, api_key0 |-> "none", host0 |-> "none"]

\* no file at output_path, nothing sent; __new__ lines 40-41 set _api_key and
\* _host to None; no force_process() under way
InitExt ==
    /\ storage_service = NoStorage
    /\ file = <<>>
    /\ posts = <<>>
    /\ backendLog = <<>>
    /\ st_last = NoStoreCall
    /\ cf = [api_key |-> "none", host |-> "none", config |-> DefaultConfig,
             calls |-> 0, last |-> NoConfigure,
             worker_interval |-> 0, inits |-> 0, init |-> NoWiring]
    /\ fp = [pc |-> "idle", events |-> <<>>, new_total |-> 0, calls |-> 0]

Init == InitPipeline /\ InitGb /\ InitMgr /\ InitTr /\ InitIni /\ InitExt

Next ==
    \/ \E p \in Producers : PutLock(p)
    \/ \E p \in Producers : PutBlock(p)
    \/ \E p \in Producers : PutInsert(p)
    \/ \E p \in Producers : PutSignal(p)
    \/ WorkerStart
    \/ WorkerStop
    \/ JoinReturn
    \/ \E t \in ThreadIds : LoopTest(t)
    \/ \E t \in ThreadIds : WakeBySignal(t)
    \/ \E t \in ThreadIds : WakeByTimeout(t)
    \/ \E t \in ThreadIds : ClearSignal(t)
    \/ \E t \in ThreadIds : GetFirst(t)
    \/ \E t \in ThreadIds : GetMore(t)
    \/ \E t \in ThreadIds : StoreReturns(t)
    \/ \E t \in ThreadIds : CounterAssign(t)
    \/ \E t \in ThreadIds : StoreRaises(t)

Spec == Init /\ [][Next]_vars

----------------------------------------------------------------------------
(* get_batch called directly, with no concurrent access to the queue *)

RECURSIVE GetMoreLoop(_, _, _)
\* get_batch, lines 84-88: for _ in range(n): get(timeout=0), break on None
GetMoreLoop(events, q, n) ==
    IF n <= 0 \/ QueueFront(q) = 0
    THEN [events |-> events, rest |-> q]
    ELSE GetMoreLoop(Append(events, QueueFront(q)), QueueRest(q), n - 1)

GetBatch_offByOne(q, max_size) ==
    IF QueueFront(q) = 0
    THEN [events |-> <<>>, rest |-> q]
    ELSE GetMoreLoop(<<QueueFront(q)>>, QueueRest(q), max_size)

\* get_batch, lines 74-90: the list returned and the buffer left behind
GetBatch(q, max_size) ==
    IF QueueFront(q) = 0
    THEN [events |-> <<>>, rest |-> q]
    ELSE GetMoreLoop(<<QueueFront(q)>>, QueueRest(q), max_size - 1)

\* the max_size arguments explored
BatchArgs == 0..(BatchMax + 1)

\* the buffers a queue can hold after n insertions: its last k events
Holding(n, k) == [i \in 1..k |-> n - k + i]

InitGetBatch ==
    /\ \E n \in 0..MaxEvents : \E k \in 0..Min(n, maxsize) :
        /\ queue = Holding(n, k)
        /\ inserted = n
        /\ event_count = n
    /\ new_event_signal = FALSE
    /\ prod = [p \in Producers |-> [pc |-> "idle", current_size |-> 0]]
    /\ running = FALSE
    /\ thread = 0
    /\ threads = [t \in ThreadIds |-> NoThread]
    /\ total_events_processed = 0
    /\ storeLog = <<>>
    /\ ctl = "idle"
    /\ waitMark = -1
    /\ owed = 0
    /\ failMark = -1
    /\ wk_last = "none"
    /\ drains = [t \in ThreadIds |-> -1]
    /\ due = 0
    /\ InitGb
    /\ InitMgr
    /\ InitTr
    /\ InitIni
    /\ InitExt

\* one call get_batch(max_size, timeout)
GetBatchCall(max_size) ==
    /\ gb_pc' = "returned"
    /\ gb_in' = queue
    /\ gb_max' = max_size
    /\ gb_out' = GetBatch(queue, max_size).events
    /\ queue' = GetBatch(queue, max_size).rest
    /\ UNCHANGED <<event_count, new_event_signal, inserted, prod, running, thread,
                   threads, total_events_processed, storeLog, ctl, waitMark, owed,
                   failMark, wk_last, drains, due, mgrVars, trVars, iniVars, extVars>>

NextGetBatch == \E max_size \in BatchArgs : GetBatchCall(max_size)

SpecGetBatch == InitGetBatch /\ [][NextGetBatch]_vars

----------------------------------------------------------------------------
(* LogWorkerService under start() and stop(), with the events put beforehand *)

\* the thread objects explored: a second start() may come while the thread of
\* the first is still alive
WorkerThreads == {1, 2}

\* k events were put, one put after the other, before the first start(): none,
\* or one more than a drain takes
InitWorker ==
    /\ \E k \in {0, BatchMax + 1} :
        /\ queue = Iota(k)
        /\ inserted = k
        /\ event_count = k
        /\ new_event_signal = (k > WakeThreshold)
        /\ owed = IF k > WakeThreshold THEN k ELSE 0
    /\ prod = [p \in Producers |-> [pc |-> "idle", current_size |-> 0]]
    /\ running = FALSE
    /\ thread = 0
    /\ threads = [t \in WorkerThreads |-> NoThread]
    /\ total_events_processed = 0
    /\ storeLog = <<>>
    /\ ctl = "idle"
    /\ waitMark = -1
    /\ failMark = -1
    /\ wk_last = "none"
    /\ drains = [t \in WorkerThreads |-> -1]
    /\ due = 0
    /\ InitGb
    /\ InitMgr
    /\ InitTr
    /\ InitIni
    /\ InitExt

\* one step of loop thread t
ThreadStep(t) ==
    \/ LoopTest(t)
    \/ WakeBySignal(t)
    \/ WakeByTimeout(t)
    \/ ClearSignal(t)
    \/ GetFirst(t)
    \/ GetMore(t)
    \/ StoreReturns(t)
    \/ CounterAssign(t)
    \/ StoreRaises(t)

NextWorker ==
    \/ WorkerStart
    \/ WorkerStop
    \/ JoinReturn
    \/ \E t \in WorkerThreads : LoopTest(t)
    \/ \E t \in WorkerThreads : WakeBySignal(t)
    \/ \E t \in WorkerThreads : WakeByTimeout(t)
    \/ \E t \in WorkerThreads : ClearSignal(t)
    \/ \E t \in WorkerThreads : GetFirst(t)
    \/ \E t \in WorkerThreads : GetMore(t)
    \/ \E t \in WorkerThreads : StoreReturns(t)
    \/ \E t \in WorkerThreads : CounterAssign(t)
    \/ \E t \in WorkerThreads : StoreRaises(t)

\* Every loop thread goes on running (wait has a timeout, get(timeout=0) does
\* not block, the store call returns or raises), and join has a timeout.
SpecWorker ==
    /\ InitWorker
    /\ [][NextWorker]_vars
    /\ \A t \in WorkerThreads : WF_vars(ThreadStep(t))
    /\ WF_vars(JoinReturn)

----------------------------------------------------------------------------
(* The pipeline in operation: the Worker is started before the first put (as
   _ensure_services_initialized does), is not stopped, and every store call
   returns normally *)

\* put is called while the Worker is running
PutLockRunning(p) == running /\ PutLock(p)

NextLive ==
    \/ WorkerStart
    \/ \E p \in Producers : PutLockRunning(p)
    \/ \E p \in Producers : PutBlock(p)
    \/ \E p \in Producers : PutInsert(p)
    \/ \E p \in Producers : PutSignal(p)
    \/ \E t \in ThreadIds : LoopTest(t)
    \/ \E t \in ThreadIds : WakeBySignal(t)
    \/ \E t \in ThreadIds : WakeByTimeout(t)
    \/ \E t \in ThreadIds : ClearSignal(t)
    \/ \E t \in ThreadIds : GetFirst(t)
    \/ \E t \in ThreadIds : GetMore(t)
    \/ \E t \in ThreadIds : StoreReturns(t)
    \/ \E t \in ThreadIds : CounterAssign(t)

\* one step of loop thread t whose store calls return normally
LiveStep(t) ==
    \/ LoopTest(t)
    \/ WakeBySignal(t)
    \/ WakeByTimeout(t)
    \/ ClearSignal(t)
    \/ GetFirst(t)
    \/ GetMore(t)
    \/ StoreReturns(t)
    \/ CounterAssign(t)

\* The loop thread goes on running (its wait has a timeout, its gets do not
\* block, the store call returns), and a producer that can insert does so
\* (Queue.put is woken when a slot is free).
SpecLive ==
    /\ Init
    /\ [][NextLive]_vars
    /\ \A t \in ThreadIds : WF_vars(LiveStep(t))
    /\ \A p \in Producers : WF_vars(PutInsert(p))

----------------------------------------------------------------------------
(* force_process(): _process_events run by a caller's thread, beside the loop
   thread of the Worker, with the events put beforehand *)

\* number of force_process() calls explored
MaxForce == 2

\* what the steps of force_process leave alone
fpOthers == <<event_count, new_event_signal, inserted, prod, running, thread, threads,
              ctl, waitMark, wk_last, drains,
              gbVars, mgrVars, trVars, iniVars, stVars, cf>>

\* force_process, lines 136-138: _process_events is entered
ForceProcessCall ==
    /\ fp.pc = "idle"
    /\ fp.calls < MaxForce
    /\ fp' = [pc |-> "get_first", events |-> <<>>, new_total |-> 0, calls |-> fp.calls + 1]
    /\ UNCHANGED <<queue, total_events_processed, storeLog, owed, failMark, due, fpOthers>>

\* get_batch, lines 77-81, in the caller's thread: None ends the call (line 94)
ForceGetFirst ==
    /\ fp.pc = "get_first"
    /\ IF QueueFront(queue) = 0
       THEN /\ fp' = [fp EXCEPT !.pc = "idle"]
            /\ UNCHANGED queue
       ELSE /\ fp' = [fp EXCEPT !.pc = IF BatchMax - 1 >= 1 THEN "get_more" ELSE "store",
                                !.events = <<QueueFront(queue)>>]
            /\ queue' = QueueRest(queue)
    /\ owed' = StillOwed(owed, queue')
    /\ due' = StillOwed(due, queue')
    /\ UNCHANGED <<total_events_processed, storeLog, failMark, fpOthers>>

\* get_batch, lines 84-88, in the caller's thread
ForceGetMore ==
    /\ fp.pc = "get_more"
    /\ IF QueueFront(queue) = 0
       THEN /\ fp' = [fp EXCEPT !.pc = "store"]
            /\ UNCHANGED queue
       ELSE /\ fp' = [fp EXCEPT !.pc = IF Len(fp.events) + 1 < BatchMax
                                       THEN "get_more" ELSE "store",
                                !.events = Append(fp.events, QueueFront(queue))]
            /\ queue' = QueueRest(queue)
    /\ owed' = StillOwed(owed, queue')
    /\ due' = StillOwed(due, queue')
    /\ UNCHANGED <<total_events_processed, storeLog, failMark, fpOthers>>

\* _process_events, lines 96-97, in the caller's thread: store returns, and
\* line 97 reads the counter and adds len(events)
ForceStoreReturns ==
    /\ fp.pc = "store"
    /\ storeLog' = Append(storeLog, [events |-> fp.events, ok |-> TRUE])
    /\ fp' = [fp EXCEPT !.pc = "add", !.events = <<>>,
                        !.new_total = total_events_processed + Len(fp.events)]
    /\ UNCHANGED <<queue, total_events_processed, owed, failMark, due, fpOthers>>

\* _process_events, line 97, in the caller's thread: the sum is assigned, and
\* force_process returns
ForceCounterAssign ==
    /\ fp.pc = "add"
    /\ total_events_processed' = fp.new_total
    /\ fp' = [fp EXCEPT !.pc = "idle", !.new_total = 0]
    /\ UNCHANGED <<queue, storeLog, owed, failMark, due, fpOthers>>

\* _process_events, lines 96 and 107-108, in the caller's thread: store
\* raises, the except swallows it and force_process returns
ForceStoreRaises ==
    /\ fp.pc = "store"
    /\ Cardinality({i \in 1..Len(storeLog) : ~storeLog[i].ok}) < MaxStoreFailures
    /\ storeLog' = Append(storeLog, [events |-> fp.events, ok |-> FALSE])
    /\ queue' = RequeueAfterRaise(queue, fp.events)
    /\ failMark' = inserted
    /\ fp' = [fp EXCEPT !.pc = "idle", !.events = <<>>]
    /\ UNCHANGED <<total_events_processed, owed, due, fpOthers>>

\* k events were put, one put after the other, before start() and
\* force_process() are called
InitForce ==
    /\ \E k \in 0..maxsize :
        /\ queue = Iota(k)
        /\ inserted = k
        /\ event_count = k
        /\ new_event_signal = (k > WakeThreshold)
        /\ owed = IF k > WakeThreshold THEN k ELSE 0
    /\ prod = [p \in Producers |-> [pc |-> "idle", current_size |-> 0]]
    /\ running = FALSE
    /\ thread = 0
    /\ threads = [t \in ThreadIds |-> NoThread]
    /\ total_events_processed = 0
    /\ storeLog = <<>>
    /\ ctl = "idle"
    /\ waitMark = -1
    /\ failMark = -1
    /\ wk_last = "none"
    /\ drains = [t \in ThreadIds |-> -1]
    /\ due = 0
    /\ InitGb
    /\ InitMgr
    /\ InitTr
    /\ InitIni
    /\ InitExt

NextForce ==
    \/ WorkerStart
    \/ \E t \in ThreadIds : LoopTest(t)
    \/ \E t \in ThreadIds : WakeBySignal(t)
    \/ \E t \in ThreadIds : WakeByTimeout(t)
    \/ \E t \in ThreadIds : ClearSignal(t)
    \/ \E t \in ThreadIds : GetFirst(t)
    \/ \E t \in ThreadIds : GetMore(t)
    \/ \E t \in ThreadIds : StoreReturns(t)
    \/ \E t \in ThreadIds : CounterAssign(t)
    \/ \E t \in ThreadIds : StoreRaises(t)
    \/ ForceProcessCall
    \/ ForceGetFirst
    \/ ForceGetMore
    \/ ForceStoreReturns
    \/ ForceCounterAssign
    \/ ForceStoreRaises

SpecForce == InitForce /\ [][NextForce]_vars

----------------------------------------------------------------------------
(* BackgroundExecutorService: the lifecycle manager *)

\* number of services add_service may register
MaxServices == 3

\* the services explored: LogWorkerService (start, stop), BatchLoggerService
\* (start, stop, force_flush), EventQueue / StorageService / NetworkRequestService
\* (no lifecycle method), and services whose methods raise or that only flush
ServiceKinds ==
    { Svc("ok", "ok", "absent"),
      Svc("ok", "ok", "ok"),
      Svc("absent", "absent", "absent"),
      Svc("raises", "ok", "absent"),
      Svc("ok", "raises", "ok"),
      Svc("absent", "absent", "ok"),
      Svc("absent", "absent", "raises") }

\* history: the latest of start_all_services / stop_all_services called so far
LatestToggle ==
    IF lastCall.op \in {"start_all", "stop_all"} THEN lastCall.op ELSE lastCall.prev

\* the main thread is running the program: no signal handler is on top of it
\* and the interpreter has not begun to exit
MainRuns == sig = "none" /\ sd.atexit = "no"

\* the atexit call of _shutdown is under way: it began with the handler state
\* at_sig and no handler has been entered since (a handler that is entered
\* ends with exit(0), whose SystemExit unwinds the frame it interrupted)
AtexitRuns == sd.atexit \notin {"no", "done"} /\ sig = sd.at_sig

\* the registry entry of a service of kind k; late is history: whether the
\* manager was running when add_service appended it
Registered(k, r) ==
    [start |-> k.start, stop |-> k.stop, force_flush |-> k.force_flush, late |-> r]

\* add_service: append to the registry under the lock
AddService(k) ==
    /\ MainRuns
    /\ mgr_pc = "idle"
    /\ ~mgr_lock
    /\ Len(services) < MaxServices
    /\ services' = Append(services, Registered(k, mgr_running))
    /\ callLog' = <<>>
    /\ lastCall' = [op |-> "add_service", acted |-> TRUE, prev |-> LatestToggle]
    /\ UNCHANGED <<mgr_running, mgr_lock, mgr_pc, mgr_i, reg, sd, sig,
                   pipeVars, gbVars, trVars, iniVars, extVars>>

AlreadyRunning_never(r) == FALSE

\* start_all_services, lines 53-54: if self._running: return
AlreadyRunning(r) == r

\* start_all_services, lines 52-56: take the lock; return if running, else set
\* the flag and enter the loop
StartAllEnter ==
    /\ MainRuns
    /\ mgr_pc = "idle"
    /\ ~mgr_lock
    /\ callLog' = <<>>
    /\ IF AlreadyRunning(mgr_running)
       THEN /\ lastCall' = [op |-> "start_all", acted |-> FALSE, prev |-> LatestToggle]
            /\ UNCHANGED <<mgr_running, mgr_lock, mgr_pc, mgr_i, sd>>
       ELSE /\ lastCall' = [op |-> "start_all", acted |-> TRUE, prev |-> LatestToggle]
            /\ mgr_running' = TRUE
            /\ mgr_lock' = TRUE
            /\ mgr_pc' = "starting"
            /\ mgr_i' = 1
            \* history: a new running period begins
            /\ sd' = [sd EXCEPT !.stopLog = <<>>, !.hookLog = <<>>]
    /\ UNCHANGED <<services, reg, sig, pipeVars, gbVars, trVars, iniVars, extVars>>

StartAfterRaise_abort(i) == Len(services) + 1

\* start_all_services, lines 59-63: the try is inside the loop, so after a
\* start that raised the loop goes on with the next service
StartAfterRaise(i) == i + 1

\* start_all_services, line 58: the service the i-th iteration visits
StartVisits(n, i) == i

\* start_all_services, lines 58-63: one iteration of the loop
StartStep ==
    /\ sig = "none"
    /\ mgr_pc = "starting"
    /\ mgr_i <= Len(services)
    /\ LET x == StartVisits(Len(services), mgr_i)
       IN  /\ callLog' = IF services[x].start # "absent"
                         THEN Append(callLog, [op |-> "start", svc |-> x])
                         ELSE callLog
           /\ mgr_i' = IF services[x].start = "raises"
                       THEN StartAfterRaise(mgr_i) ELSE mgr_i + 1
    /\ UNCHANGED <<services, mgr_running, mgr_lock, mgr_pc, lastCall,
                   reg, sd, sig, pipeVars, gbVars, trVars, iniVars, extVars>>

\* start_all_services: the loop is over, the lock is released
StartAllReturn ==
    /\ sig = "none"
    /\ mgr_pc = "starting"
    /\ mgr_i > Len(services)
    /\ mgr_lock' = FALSE
    /\ mgr_pc' = "idle"
    /\ mgr_i' = 0
    /\ UNCHANGED <<services, mgr_running, callLog, lastCall, reg, sd, sig,
                   pipeVars, gbVars, trVars, iniVars, extVars>>

\* stop_all_services, lines 68-69: if not self._running: return
NotRunning(r) == ~r

\* stop_all_services, lines 67-71: take the lock; return if not running, else
\* clear the flag and enter the loop
StopAllEnter ==
    /\ MainRuns \/ sig = "call_stop" \/ (AtexitRuns /\ sd.atexit = "call_stop")
    /\ mgr_pc = "idle"
    /\ ~mgr_lock
    /\ callLog' = <<>>
    /\ IF NotRunning(mgr_running)
       THEN /\ lastCall' = [op |-> "stop_all", acted |-> FALSE, prev |-> LatestToggle]
            /\ sig' = IF sig = "call_stop" THEN "hooks" ELSE sig
            /\ sd' = IF sig # "call_stop" /\ sd.atexit = "call_stop"
                     THEN [sd EXCEPT !.atexit = "hooks", !.hook_i = 1] ELSE sd
            /\ UNCHANGED <<mgr_running, mgr_lock, mgr_pc, mgr_i>>
       ELSE /\ lastCall' = [op |-> "stop_all", acted |-> TRUE, prev |-> LatestToggle]
            /\ sig' = IF sig = "call_stop" THEN "stopping" ELSE sig
            /\ sd' = IF sig # "call_stop" /\ sd.atexit = "call_stop"
                     THEN [sd EXCEPT !.atexit = "stopping"] ELSE sd
            /\ mgr_running' = FALSE
            /\ mgr_lock' = TRUE
            /\ mgr_pc' = "stopping"
            /\ mgr_i' = 1
    /\ UNCHANGED <<services, reg, pipeVars, gbVars, trVars, iniVars, extVars>>

StopVisits_forward(n, i) == i

\* stop_all_services, line 74: the service the i-th iteration of
\* reversed(self._services) visits
StopVisits(n, i) == n - i + 1

\* stop_all_services, lines 76-79: stop if the service has it, else
\* force_flush if the service has it
StopCalls(k) ==
    IF k.stop # "absent" THEN <<"stop">>
    ELSE IF k.force_flush # "absent" THEN <<"force_flush">>
    ELSE <<>>

\* stop_all_services, lines 75-81: the try is inside the loop
StopAfterRaise(i) == i + 1

\* whether the call of method m on a service of kind k raises
Raises(k, m) ==
    \/ m = "stop" /\ k.stop = "raises"
    \/ m = "force_flush" /\ k.force_flush = "raises"

\* stop_all_services, lines 74-81: one iteration of the loop
StopStep ==
    /\ sig \in {"none", "stopping"} \/ AtexitRuns
    /\ mgr_pc = "stopping"
    /\ mgr_i <= Len(services)
    /\ LET x == StopVisits(Len(services), mgr_i)
           calls == StopCalls(services[x])
       IN  /\ callLog' = callLog \o [j \in 1..Len(calls) |-> [op |-> calls[j], svc |-> x]]
           /\ mgr_i' = IF \E j \in 1..Len(calls) : Raises(services[x], calls[j])
                       THEN StopAfterRaise(mgr_i) ELSE mgr_i + 1
           /\ sd' = IF calls = <<"stop">>
                    THEN [sd EXCEPT !.stopLog = Append(@, x)] ELSE sd
    /\ UNCHANGED <<services, mgr_running, mgr_lock, mgr_pc, lastCall,
                   reg, sig, pipeVars, gbVars, trVars, iniVars, extVars>>

\* stop_all_services: the loop is over, the lock is released
StopAllReturn ==
    /\ sig \in {"none", "stopping"} \/ AtexitRuns
    /\ mgr_pc = "stopping"
    /\ mgr_i > Len(services)
    /\ mgr_lock' = FALSE
    /\ mgr_pc' = "idle"
    /\ mgr_i' = 0
    /\ sig' = IF sig = "stopping" THEN "hooks" ELSE sig
    /\ sd' = IF sig # "stopping" /\ sd.atexit = "stopping"
             THEN [sd EXCEPT !.atexit = "hooks", !.hook_i = 1] ELSE sd
    /\ UNCHANGED <<services, mgr_running, callLog, lastCall, reg,
                   pipeVars, gbVars, trVars, iniVars, extVars>>

NextLifecycle ==
    \/ \E k \in ServiceKinds : AddService(k)
    \/ StartAllEnter
    \/ StartStep
    \/ StartAllReturn
    \/ StopAllEnter
    \/ StopStep
    \/ StopAllReturn

SpecLifecycle == Init /\ [][NextLifecycle]_vars

----------------------------------------------------------------------------
(* add_service from a second thread *)

\* add_service, line 47, in a second thread: `with self._lock` is entered at
\* once when the lock is free (line 48 appends), else the thread waits
RegAddService(k) ==
    /\ reg.pc = "idle"
    /\ Len(services) < MaxServices
    /\ IF mgr_lock
       THEN /\ reg' = [pc |-> "waiting", svc |-> k]
            /\ UNCHANGED services
       ELSE /\ services' = Append(services, Registered(k, mgr_running))
            /\ UNCHANGED reg
    /\ UNCHANGED <<mgr_running, mgr_lock, mgr_pc, mgr_i, callLog, lastCall, sd, sig,
                   pipeVars, gbVars, trVars, iniVars, extVars>>

\* add_service, lines 47-48, in a second thread: the lock has been released,
\* the waiting thread takes it and appends
RegAcquire ==
    /\ reg.pc = "waiting"
    /\ ~mgr_lock
    /\ services' = Append(services, Registered(reg.svc, mgr_running))
    /\ reg' = [pc |-> "idle", svc |-> NoService]
    /\ UNCHANGED <<mgr_running, mgr_lock, mgr_pc, mgr_i, callLog, lastCall, sd, sig,
                   pipeVars, gbVars, trVars, iniVars, extVars>>

NextRegistry ==
    \/ \E k \in ServiceKinds : AddService(k)
    \/ StartAllEnter
    \/ StartStep
    \/ StartAllReturn
    \/ StopAllEnter
    \/ StopStep
    \/ StopAllReturn
    \/ \E k \in ServiceKinds : RegAddService(k)
    \/ RegAcquire

SpecRegistry == Init /\ [][NextRegistry]_vars

----------------------------------------------------------------------------
(* SIGINT / SIGTERM: _signal_handler runs in the main thread, on top of
   whatever the main thread was executing, which resumes only when the
   handler returns *)

\* a signal is delivered: _signal_handler is entered (lines 105-108)
SignalDelivered ==
    /\ sig = "none"
    /\ sd.atexit # "done"
    /\ sig' = "handler"
    /\ UNCHANGED <<services, mgr_running, mgr_lock, mgr_pc, mgr_i, callLog, lastCall,
                   reg, sd, pipeVars, gbVars, trVars, iniVars, extVars>>

ShutdownNeeded_always(r) == TRUE

\* _shutdown, line 94: if self._running, read without the lock
ShutdownNeeded(r) == r

\* _signal_handler, line 108 -> _shutdown, line 94
HandlerShutdown ==
    /\ sig = "handler"
    /\ sig' = IF ShutdownNeeded(mgr_running) THEN "call_stop" ELSE "exit"
    /\ UNCHANGED <<services, mgr_running, mgr_lock, mgr_pc, mgr_i, callLog, lastCall,
                   reg, sd, pipeVars, gbVars, trVars, iniVars, extVars>>

\* _shutdown, line 96 -> stop_all_services, line 67: `with self._lock` while
\* the lock is held by the frame the handler interrupted; threading.Lock is
\* not reentrant and that frame cannot run before the handler returns
HandlerBlocks ==
    /\ sig = "call_stop"
    /\ mgr_lock
    /\ sig' = "blocked"
    /\ UNCHANGED <<services, mgr_running, mgr_lock, mgr_pc, mgr_i, callLog, lastCall,
                   reg, sd, pipeVars, gbVars, trVars, iniVars, extVars>>

\* _shutdown, lines 98-103, called by the handler: every hook of
\* _shutdown_hooks is called, in order; the try is inside the loop, so a hook
\* that raises does not end it
HandlerHooks ==
    /\ sig = "hooks"
    /\ sig' = "exit"
    /\ sd' = [sd EXCEPT !.hookLog = @ \o Iota(Len(sd.hooks))]
    /\ UNCHANGED <<services, mgr_running, mgr_lock, mgr_pc, mgr_i, callLog, lastCall,
                   reg, pipeVars, gbVars, trVars, iniVars, extVars>>

\* _signal_handler, line 109: exit(0) raises SystemExit through the
\* interrupted frame, whose `with` releases the lock
HandlerExit ==
    /\ sig = "exit"
    /\ sig' = "exited"
    /\ mgr_lock' = FALSE
    /\ mgr_pc' = "idle"
    /\ mgr_i' = 0
    /\ UNCHANGED <<services, mgr_running, callLog, lastCall, reg, sd,
                   pipeVars, gbVars, trVars, iniVars, extVars>>

\* the steps of the handler, stop_all_services called from it included
HandlerStep ==
    \/ HandlerShutdown
    \/ HandlerBlocks
    \/ HandlerHooks
    \/ HandlerExit
    \/ (sig \in {"call_stop", "stopping"} /\ (StopAllEnter \/ StopStep \/ StopAllReturn))

NextSignal ==
    \/ \E k \in ServiceKinds : AddService(k)
    \/ StartAllEnter
    \/ StartStep
    \/ StartAllReturn
    \/ StopAllEnter
    \/ StopStep
    \/ StopAllReturn
    \/ SignalDelivered
    \/ HandlerShutdown
    \/ HandlerBlocks
    \/ HandlerHooks
    \/ HandlerExit

\* the handler, once entered, goes on running
SpecSignal == Init /\ [][NextSignal]_vars /\ WF_vars(HandlerStep)

----------------------------------------------------------------------------
(* shutdown hooks, and _shutdown called by atexit when the interpreter exits:
   after the main thread has finished the program, or after the exit(0) of
   the signal handler *)

MaxHooks == 2

\* the kinds of service the shutdown paths are exercised with: stop present
\* (returning or raising), and stop absent with force_flush
ShutdownKinds ==
    { Svc("ok", "ok", "absent"),
      Svc("ok", "raises", "absent"),
      Svc("absent", "absent", "ok") }

HookKinds == {"ok", "raises"}

\* add_shutdown_hook, line 90: append, without the lock
AddShutdownHook(h) ==
    /\ MainRuns
    /\ mgr_pc = "idle"
    /\ Len(sd.hooks) < MaxHooks
    /\ sd' = [sd EXCEPT !.hooks = Append(@, h)]
    /\ UNCHANGED <<services, mgr_running, mgr_lock, mgr_pc, mgr_i, callLog, lastCall,
                   reg, sig, pipeVars, gbVars, trVars, iniVars, extVars>>

\* the interpreter exits and atexit calls _shutdown (registered at line 36),
\* whose line 94 reads self._running
AtexitShutdown ==
    /\ sd.atexit = "no"
    /\ sig \in {"none", "exited"}
    /\ mgr_pc = "idle"
    /\ sd' = [sd EXCEPT !.atexit = IF ShutdownNeeded(mgr_running)
                                   THEN "call_stop" ELSE "done",
                        !.at_sig = sig]
    /\ UNCHANGED <<services, mgr_running, mgr_lock, mgr_pc, mgr_i, callLog, lastCall,
                   reg, sig, pipeVars, gbVars, trVars, iniVars, extVars>>

\* _shutdown, lines 99-103, called by atexit: one iteration of the hook loop,
\* or its end
AtexitHook ==
    /\ AtexitRuns
    /\ sd.atexit = "hooks"
    /\ sd' = IF sd.hook_i <= Len(sd.hooks)
             THEN [sd EXCEPT !.hookLog = Append(@, sd.hook_i), !.hook_i = @ + 1]
             ELSE [sd EXCEPT !.atexit = "done", !.hook_i = 0]
    /\ UNCHANGED <<services, mgr_running, mgr_lock, mgr_pc, mgr_i, callLog, lastCall,
                   reg, sig, pipeVars, gbVars, trVars, iniVars, extVars>>

NextShutdown ==
    \/ \E k \in ShutdownKinds : AddService(k)
    \/ \E h \in HookKinds : AddShutdownHook(h)
    \/ StartAllEnter
    \/ StartStep
    \/ StartAllReturn
    \/ StopAllEnter
    \/ StopStep
    \/ StopAllReturn
    \/ SignalDelivered
    \/ HandlerShutdown
    \/ HandlerBlocks
    \/ HandlerHooks
    \/ HandlerExit
    \/ AtexitShutdown
    \/ AtexitHook

SpecShutdown == Init /\ [][NextShutdown]_vars

----------------------------------------------------------------------------
(* tracker.py: the @track wrappers and _log_function_call *)

\* what the wrapped function may do: return a value, raise an Exception, or
\* raise a BaseException that `except Exception` does not catch
FuncOutcomes ==
    { [kind |-> "return", val |-> "r1"],
      [kind |-> "return", val |-> "r2"],
      [kind |-> "raise", val |-> "ValueError"],
      [kind |-> "raise", val |-> "KeyboardInterrupt"] }

\* the classes `except Exception` catches
IsException(e) == e # "KeyboardInterrupt"

\* The inputs of one call: which wrapper (async or sync), config.enable_logging,
\* whether host, api_key and backend are configured so that initialize_services
\* succeeds, and whether asdict() can deep-copy the arguments / the return value.
TrackInputs ==
    [is_async : BOOLEAN, enable_logging : BOOLEAN, configured : BOOLEAN,
     args_copyable : BOOLEAN, result_copyable : BOOLEAN]

\* _log_function_call, lines 42-102, called with or without a return value:
\* "skipped" (logging disabled), "enqueued" (the event was put), or the class of
\* the exception it raises
LogOutcome(in, started, has_return_value) ==
    IF ~in.enable_logging THEN "skipped"
    ELSE IF ~started /\ ~in.configured THEN "AssertionError"
    ELSE IF ~in.args_copyable \/ (has_return_value /\ ~in.result_copyable)
         THEN "TypeError"
    ELSE "enqueued"

\* _ensure_services_initialized: _services_started after a _log_function_call
StartedAfter(in, started) ==
    started \/ (in.enable_logging /\ in.configured)

\* the wrapper is called
TrackCall(in) ==
    /\ tr_pc = "idle"
    /\ tr_pc' = "func"
    /\ tr_in' = in
    /\ tr_func' = NoOutcome
    /\ tr_exc' = "none"
    /\ tr_caller' = NoOutcome
    /\ tr_events' = <<>>
    /\ UNCHANGED <<services_started, pipeVars, gbVars, mgrVars, iniVars, extVars>>

\* lines 134 / 163: result = func(*args, **kwargs)
FuncRuns(o) ==
    /\ tr_pc = "func"
    /\ tr_func' = o
    /\ IF o.kind = "return"
       THEN /\ tr_pc' = "log_result"
            /\ UNCHANGED <<tr_exc, tr_caller>>
       ELSE IF IsException(o.val)
       THEN /\ tr_pc' = "log_exception"
            /\ tr_exc' = o.val
            /\ UNCHANGED tr_caller
       ELSE /\ tr_pc' = "done"
            /\ tr_caller' = o
            /\ UNCHANGED tr_exc
    /\ UNCHANGED <<tr_in, tr_events, services_started, pipeVars, gbVars, mgrVars, iniVars, extVars>>

\* lines 136-144 / 165-173: _log_function_call(return_value=result), then
\* return result; an exception of the call is caught by the except clause
LogResult ==
    /\ tr_pc = "log_result"
    /\ LET out == LogOutcome(tr_in, services_started, TRUE)
       IN  /\ tr_events' = IF out = "enqueued"
                           THEN Append(tr_events, [is_success |-> TRUE])
                           ELSE tr_events
           /\ IF out \in {"skipped", "enqueued"}
              THEN /\ tr_pc' = "done"
                   /\ tr_caller' = tr_func
                   /\ UNCHANGED tr_exc
              ELSE /\ tr_pc' = "log_exception"
                   /\ tr_exc' = out
                   /\ UNCHANGED tr_caller
    /\ services_started' = StartedAfter(tr_in, services_started)
    /\ UNCHANGED <<tr_in, tr_func, pipeVars, gbVars, mgrVars, iniVars, extVars>>

\* lines 145-155 / 174-184: _log_function_call(exception=e), then raise
LogException ==
    /\ tr_pc = "log_exception"
    /\ LET out == LogOutcome(tr_in, services_started, FALSE)
       IN  /\ tr_events' = IF out = "enqueued"
                           THEN Append(tr_events, [is_success |-> FALSE])
                           ELSE tr_events
           /\ tr_caller' = IF out \in {"skipped", "enqueued"}
                           THEN [kind |-> "raise", val |-> tr_exc]
                           ELSE [kind |-> "raise", val |-> out]
    /\ tr_pc' = "done"
    /\ services_started' = StartedAfter(tr_in, services_started)
    /\ UNCHANGED <<tr_in, tr_func, tr_exc, pipeVars, gbVars, mgrVars, iniVars, extVars>>

\* the call is over; the next call may begin
TrackDone ==
    /\ tr_pc = "done"
    /\ tr_pc' = "idle"
    /\ UNCHANGED <<tr_in, tr_func, tr_exc, tr_caller, tr_events, services_started,
                   pipeVars, gbVars, mgrVars, iniVars, extVars>>

NextTrack ==
    \/ \E in \in TrackInputs : TrackCall(in)
    \/ \E o \in FuncOutcomes : FuncRuns(o)
    \/ LogResult
    \/ LogException
    \/ TrackDone

SpecTrack == Init /\ [][NextTrack]_vars

----------------------------------------------------------------------------
(* initialize.py: the QLTrackerInitializer singleton and the wiring *)

\* number of calls (configure, initialize_services, start) a thread makes
MaxCalls == 2

\* what the Initializer's steps leave alone
iniOthers == <<pipeVars, gbVars, tr_pc, tr_in, tr_func, tr_exc, tr_caller, tr_events,
               mgr_lock, mgr_pc, mgr_i, callLog, lastCall, reg, sd, sig, extVars>>

\* thread th moves to position pc
Goto(th, pc) == ini' = [ini EXCEPT ![th].pc = pc]

\* get_initializer() is called
GetInitializerCall(th) ==
    /\ ini[th].pc = "start"
    /\ ini' = [ini EXCEPT ![th].pc = "g_check", ![th].op = "get_initializer"]
    /\ UNCHANGED <<instance, constructed, cls_lock, g_initializer, fields_set,
                   ini_configured, event_queue, log_worker, created, workers_started,
                   start_called, init_returned, services_started, services,
                   mgr_running, iniOthers>>

\* QLTrackerInitializer() is called directly
NewCall(th) ==
    /\ ini[th].pc = "start"
    /\ ini' = [ini EXCEPT ![th].pc = "new_check1", ![th].op = "new"]
    /\ UNCHANGED <<instance, constructed, cls_lock, g_initializer, fields_set,
                   ini_configured, event_queue, log_worker, created, workers_started,
                   start_called, init_returned, services_started, services,
                   mgr_running, iniOthers>>

\* get_initializer, line 268: if _initializer is None (no lock)
GCheck(th) ==
    /\ ini[th].pc = "g_check"
    /\ ini' = IF g_initializer = 0
              THEN [ini EXCEPT ![th].pc = "new_check1"]
              ELSE [ini EXCEPT ![th].pc = "ready", ![th].inst = g_initializer]
    /\ UNCHANGED <<instance, constructed, cls_lock, g_initializer, fields_set,
                   ini_configured, event_queue, log_worker, created, workers_started,
                   start_called, init_returned, services_started, services,
                   mgr_running, iniOthers>>

\* __new__, line 30: the first test of cls._instance, without the lock
NewCheck1(th) ==
    /\ ini[th].pc = "new_check1"
    /\ Goto(th, IF instance = 0 THEN "new_lock" ELSE "new_return")
    /\ UNCHANGED <<instance, constructed, cls_lock, g_initializer, fields_set,
                   ini_configured, event_queue, log_worker, created, workers_started,
                   start_called, init_returned, services_started, services,
                   mgr_running, iniOthers>>

\* __new__, line 31: with cls._lock
NewLock(th) ==
    /\ ini[th].pc = "new_lock"
    /\ cls_lock = 0
    /\ cls_lock' = th
    /\ Goto(th, "new_check2")
    /\ UNCHANGED <<instance, constructed, g_initializer, fields_set,
                   ini_configured, event_queue, log_worker, created, workers_started,
                   start_called, init_returned, services_started, services,
                   mgr_running, iniOthers>>

StillNone_unchecked(i) == TRUE

\* __new__, line 32: the second test of cls._instance, under the lock
StillNone(i) == i = 0

\* __new__, line 32
NewCheck2(th) ==
    /\ ini[th].pc = "new_check2"
    /\ Goto(th, IF StillNone(instance) THEN "new_create" ELSE "new_unlock")
    /\ UNCHANGED <<instance, constructed, cls_lock, g_initializer, fields_set,
                   ini_configured, event_queue, log_worker, created, workers_started,
                   start_called, init_returned, services_started, services,
                   mgr_running, iniOthers>>

\* __new__, line 33: cls._instance = super().__new__(cls), an object that has
\* none of the attributes yet
NewCreate(th) ==
    /\ ini[th].pc = "new_create"
    /\ constructed' = constructed + 1
    /\ instance' = constructed + 1
    /\ fields_set' = FALSE
    /\ Goto(th, "new_fields")
    /\ UNCHANGED <<cls_lock, g_initializer, ini_configured, event_queue, log_worker,
                   created, workers_started, start_called, init_returned,
                   services_started, services, mgr_running, iniOthers>>

\* __new__, lines 35-43: the attributes are assigned, _services_started last
NewFields(th) ==
    /\ ini[th].pc = "new_fields"
    /\ event_queue' = 0
    /\ log_worker' = 0
    /\ ini_configured' = FALSE
    /\ services_started' = FALSE
    /\ fields_set' = TRUE
    /\ Goto(th, "new_unlock")
    /\ UNCHANGED <<instance, constructed, cls_lock, g_initializer, created,
                   workers_started, start_called, init_returned, services,
                   mgr_running, iniOthers>>

\* __new__: the with block is left
NewUnlock(th) ==
    /\ ini[th].pc = "new_unlock"
    /\ cls_lock' = 0
    /\ Goto(th, "new_return")
    /\ UNCHANGED <<instance, constructed, g_initializer, fields_set,
                   ini_configured, event_queue, log_worker, created, workers_started,
                   start_called, init_returned, services_started, services,
                   mgr_running, iniOthers>>

\* __new__, line 44: return cls._instance
NewReturn(th) ==
    /\ ini[th].pc = "new_return"
    /\ ini' = [ini EXCEPT ![th].inst = instance,
                          ![th].pc = IF ini[th].op = "get_initializer"
                                     THEN "g_assign" ELSE "ready"]
    /\ UNCHANGED <<instance, constructed, cls_lock, g_initializer, fields_set,
                   ini_configured, event_queue, log_worker, created, workers_started,
                   start_called, init_returned, services_started, services,
                   mgr_running, iniOthers>>

\* get_initializer, lines 269-270: _initializer = QLTrackerInitializer(); return
GAssign(th) ==
    /\ ini[th].pc = "g_assign"
    /\ g_initializer' = ini[th].inst
    /\ Goto(th, "ready")
    /\ UNCHANGED <<instance, constructed, cls_lock, fields_set,
                   ini_configured, event_queue, log_worker, created, workers_started,
                   start_called, init_returned, services_started, services,
                   mgr_running, iniOthers>>

\* the four services background_executor.initialize_services registers for
\* pipeline n, in the order of lines 217-220; only the LogWorkerService has
\* start and stop
WiredOn(n, r) ==
    << [start |-> "absent", stop |-> "absent", force_flush |-> "absent",
        cls |-> "EventQueue", id |-> n, late |-> r],
       [start |-> "absent", stop |-> "absent", force_flush |-> "absent",
        cls |-> "NetworkRequestService", id |-> n, late |-> r],
       [start |-> "absent", stop |-> "absent", force_flush |-> "absent",
        cls |-> "StorageService", id |-> n, late |-> r],
       [start |-> "ok", stop |-> "ok", force_flush |-> "absent",
        cls |-> "LogWorkerService", id |-> n, late |-> r] >>

\* the four services as a wiring registers them with a manager that is not
\* running
WiredServices(n) == WiredOn(n, FALSE)

\* the pipelines whose service start_all_services calls start on
StartedBy(svcs) == {svcs[x].id : x \in {y \in 1..Len(svcs) : svcs[y].start # "absent"}}

\* start_all_services as one lock section (lines 52-63): the workers started
StartAllStarts == IF AlreadyRunning(mgr_running) THEN {} ELSE StartedBy(services)

\* a call returns to the code of thread th: to start() if the call was made
\* from it (line 129), else to the caller
ReturnFromInit(th) == IF ini[th].op = "start" THEN "st_start_all" ELSE "ready"

\* the call of thread th ends with exception e
Raise(th, e) == ini' = [ini EXCEPT ![th].pc = "ready", ![th].out = e]

\* configure(api_key, host, config_path): given tells whether the arguments
\* and the configuration file together provide an api_key and a host
Configure(th, given) ==
    /\ ini[th].pc = "ready"
    /\ ini[th].calls < MaxCalls
    /\ ini_configured' = (ini_configured \/ given)
    /\ ini' = [ini EXCEPT ![th].op = "configure", ![th].out = "none",
                          ![th].calls = ini[th].calls + 1]
    /\ UNCHANGED <<instance, constructed, cls_lock, g_initializer, fields_set,
                   event_queue, log_worker, created, workers_started,
                   start_called, init_returned, services_started, services,
                   mgr_running, iniOthers>>

\* initialize_services() is called on the Initializer
InitializeServicesCall(th) ==
    /\ ini[th].pc = "ready"
    /\ ini[th].calls < MaxCalls
    /\ ini' = [ini EXCEPT ![th].pc = "is_check", ![th].op = "initialize_services",
                          ![th].out = "none", ![th].mine = 0,
                          ![th].after_ok = init_returned,
                          ![th].calls = ini[th].calls + 1]
    /\ UNCHANGED <<instance, constructed, cls_lock, g_initializer, fields_set,
                   ini_configured, event_queue, log_worker, created, workers_started,
                   start_called, init_returned, services_started, services,
                   mgr_running, iniOthers>>

AlreadyWired_never(started) == FALSE

\* initialize_services, lines 91-92: if self._services_started: return self
AlreadyWired(started) == started

\* initialize_services, lines 91-92; the attribute does not exist before
\* __new__ has reached line 43
IsCheck(th) ==
    /\ ini[th].pc = "is_check"
    /\ IF ~fields_set
       THEN /\ Raise(th, "AttributeError")
            /\ UNCHANGED init_returned
       ELSE IF AlreadyWired(services_started)
       THEN /\ Goto(th, ReturnFromInit(th))
            /\ init_returned' = TRUE
       ELSE /\ Goto(th, "wire")
            /\ UNCHANGED init_returned
    /\ UNCHANGED <<instance, constructed, cls_lock, g_initializer, fields_set,
                   ini_configured, event_queue, log_worker, created, workers_started,
                   start_called, services_started, services, mgr_running, iniOthers>>

\* background_executor.initialize_services, lines 189-212: the queue, the
\* network service (which asserts base_url and api_key), the storage service
\* and the worker are created
Wire(th) ==
    /\ ini[th].pc = "wire"
    /\ IF ini_configured
       THEN /\ created' = created + 1
            /\ ini' = [ini EXCEPT ![th].pc = "register", ![th].mine = created + 1]
       ELSE /\ Raise(th, "AssertionError")
            /\ UNCHANGED created
    /\ UNCHANGED <<instance, constructed, cls_lock, g_initializer, fields_set,
                   ini_configured, event_queue, log_worker, workers_started,
                   start_called, init_returned, services_started, services,
                   mgr_running, iniOthers>>

\* background_executor.initialize_services, lines 215-220: four add_service
Register(th) ==
    /\ ini[th].pc = "register"
    /\ services' = services \o WiredOn(ini[th].mine, mgr_running)
    /\ Goto(th, "start_all")
    /\ UNCHANGED <<instance, constructed, cls_lock, g_initializer, fields_set,
                   ini_configured, event_queue, log_worker, created, workers_started,
                   start_called, init_returned, services_started,
                   mgr_running, iniOthers>>

\* background_executor.initialize_services, line 226:
\* executor.start_all_services()
WireStartAll(th) ==
    /\ ini[th].pc = "start_all"
    /\ ~mgr_lock
    /\ workers_started' = workers_started \cup StartAllStarts
    /\ mgr_running' = TRUE
    /\ Goto(th, "assign")
    /\ UNCHANGED <<instance, constructed, cls_lock, g_initializer, fields_set,
                   ini_configured, event_queue, log_worker, created,
                   start_called, init_returned, services_started, services,
                   iniOthers>>

\* initialize_services, lines 110-119: the references are kept and
\* _services_started is set
Assign(th) ==
    /\ ini[th].pc = "assign"
    /\ event_queue' = ini[th].mine
    /\ log_worker' = ini[th].mine
    /\ services_started' = TRUE
    /\ init_returned' = TRUE
    /\ Goto(th, ReturnFromInit(th))
    /\ UNCHANGED <<instance, constructed, cls_lock, g_initializer, fields_set,
                   ini_configured, created, workers_started, start_called,
                   services, mgr_running, iniOthers>>

\* start() is called on the Initializer
StartCall(th) ==
    /\ ini[th].pc = "ready"
    /\ ini[th].calls < MaxCalls
    /\ start_called' = TRUE
    /\ ini' = [ini EXCEPT ![th].pc = "st_check", ![th].op = "start",
                          ![th].out = "none", ![th].mine = 0,
                          ![th].after_ok = init_returned,
                          ![th].calls = ini[th].calls + 1]
    /\ UNCHANGED <<instance, constructed, cls_lock, g_initializer, fields_set,
                   ini_configured, event_queue, log_worker, created, workers_started,
                   init_returned, services_started, services,
                   mgr_running, iniOthers>>

\* start, lines 128-129: if not self._services_started: self.initialize_services()
StCheck(th) ==
    /\ ini[th].pc = "st_check"
    /\ IF ~fields_set
       THEN Raise(th, "AttributeError")
       ELSE Goto(th, IF services_started THEN "st_start_all" ELSE "is_check")
    /\ UNCHANGED <<instance, constructed, cls_lock, g_initializer, fields_set,
                   ini_configured, event_queue, log_worker, created, workers_started,
                   start_called, init_returned, services_started, services,
                   mgr_running, iniOthers>>

\* start, line 132: self._background_executor.start_all_services()
StStartAll(th) ==
    /\ ini[th].pc = "st_start_all"
    /\ ~mgr_lock
    /\ workers_started' = workers_started \cup StartAllStarts
    /\ mgr_running' = TRUE
    /\ Goto(th, "ready")
    /\ UNCHANGED <<instance, constructed, cls_lock, g_initializer, fields_set,
                   ini_configured, event_queue, log_worker, created,
                   start_called, init_returned, services_started, services,
                   iniOthers>>

NextInit ==
    \/ \E th \in Callers : GetInitializerCall(th)
    \/ \E th \in Callers : NewCall(th)
    \/ \E th \in Callers : GCheck(th)
    \/ \E th \in Callers : NewCheck1(th)
    \/ \E th \in Callers : NewLock(th)
    \/ \E th \in Callers : NewCheck2(th)
    \/ \E th \in Callers : NewCreate(th)
    \/ \E th \in Callers : NewFields(th)
    \/ \E th \in Callers : NewUnlock(th)
    \/ \E th \in Callers : NewReturn(th)
    \/ \E th \in Callers : GAssign(th)
    \/ \E th \in Callers : \E given \in BOOLEAN : Configure(th, given)
    \/ \E th \in Callers : InitializeServicesCall(th)
    \/ \E th \in Callers : IsCheck(th)
    \/ \E th \in Callers : Wire(th)
    \/ \E th \in Callers : Register(th)
    \/ \E th \in Callers : WireStartAll(th)
    \/ \E th \in Callers : Assign(th)
    \/ \E th \in Callers : StartCall(th)
    \/ \E th \in Callers : StCheck(th)
    \/ \E th \in Callers : StStartAll(th)

SpecInit == Init /\ [][NextInit]_vars

----------------------------------------------------------------------------
(* StorageService and its backends: create_backend, JSONLStorageBackend,
   RemoteStorageBackend, NetworkRequestService.batch_post *)

\* number of store / _process_events calls explored
MaxStores == 2

\* what the steps of the storage services leave alone
stOthers == <<pipeVars, gbVars, mgrVars, trVars, iniVars, cf, fp>>

\* The events explored: 1 is a dictionary of plain text, 2 holds a string with a
\* line feed in it, 3 holds an object json.dumps cannot serialise.
Text(e) ==
    CASE e = 1 -> <<"a">>
      [] e = 2 -> <<"b", "LF", "c">>
      [] OTHER -> <<"OBJ">>

\* the lists passed to store
Batches == {<<>>, <<1>>, <<1, 2>>, <<2, 1>>, <<2, 3>>}

\* the backend_type arguments explored
BackendTypes == {"jsonl", "JSONL", "remote", "sqlite", "local-file"}

\* str.lower() on the arguments explored
Lower(str) == IF str = "JSONL" THEN "jsonl" ELSE str

CreateBackend_default(backend_type) ==
    IF Lower(backend_type) = "remote" THEN "RemoteStorageBackend"
    ELSE "JSONLStorageBackend"

\* create_backend, lines 20-28: the class of the backend, or the exception
CreateBackend(backend_type) ==
    IF Lower(backend_type) = "jsonl" THEN "JSONLStorageBackend"
    ELSE IF Lower(backend_type) = "remote" THEN "RemoteStorageBackend"
    ELSE "ValueError"

\* StorageService.__init__, lines 22-24: an exception of create_backend leaves
\* the caller without an object; the file at output_path is not touched
StorageServiceNew(backend_type) ==
    /\ storage_service' =
           LET b == CreateBackend(backend_type)
           IN  IF b = "ValueError"
               THEN [arg |-> backend_type, backend |-> "none", exc |-> b]
               ELSE [arg |-> backend_type, backend |-> b, exc |-> "none"]
    /\ UNCHANGED <<file, posts, backendLog, st_last, stOthers>>

RECURSIVE Escape(_)
\* json.dumps on a string: a line feed becomes the two characters \ and n
Escape(txt) ==
    IF txt = <<>> THEN <<>>
    ELSE (IF Head(txt) = "LF" THEN <<"\\", "n">> ELSE <<Head(txt)>>) \o Escape(Tail(txt))

Dumps_raw(e) == <<"{">> \o Text(e) \o <<"}">>

\* json.dumps(event, ensure_ascii=False): the text of one JSON object
Dumps(e) == <<"{">> \o Escape(Text(e)) \o <<"}">>

\* whether json.dumps accepts the event (else it raises TypeError)
Serialisable(e) == "OBJ" \notin Range(Text(e))

OpenForWriting_truncate(content) == <<>>

\* json_storage.py, line 40: open(path, "a") keeps what the file holds and
\* positions every write at its end
OpenForWriting(content) == content

RECURSIVE WriteEvents(_, _)
\* json_storage.py, lines 41-42: one write per event; a TypeError of
\* json.dumps ends the loop with the earlier events written
WriteEvents(content, events) ==
    IF events = <<>> THEN [content |-> content, out |-> "ok"]
    ELSE IF ~Serialisable(Head(events)) THEN [content |-> content, out |-> "TypeError"]
    ELSE WriteEvents(content \o Dumps(Head(events)) \o <<"LF">>, Tail(events))

\* JSONLStorageBackend.store, lines 26-42
JsonlStore(content, events) == WriteEvents(OpenForWriting(content), events)

\* What the server answers to a POST: a status code and whether the body is
\* JSON, or nothing (connection error, timeout).
Responses ==
    { [status |-> 200, json |-> TRUE],
      [status |-> 204, json |-> FALSE],
      [status |-> 304, json |-> TRUE],
      [status |-> 404, json |-> TRUE],
      [status |-> 500, json |-> FALSE],
      [status |-> 0, json |-> FALSE] }

\* requests.Response.raise_for_status: HTTPError for 4xx and 5xx
RaiseForStatus(status) == 400 <= status /\ status < 600

\* whether session.post sends the request: json=data is serialised first
PostIsSent(data) == \A i \in 1..Len(data) : Serialisable(data[i])

\* NetworkRequestService.batch_post, lines 42-50: session.post, then
\* raise_for_status, then the print of response.json()
BatchPost(data, resp) ==
    IF ~PostIsSent(data) THEN "InvalidJSONError"
    ELSE IF resp.status = 0 THEN "ConnectionError"
    ELSE IF RaiseForStatus(resp.status) THEN "HTTPError"
    ELSE IF ~resp.json THEN "JSONDecodeError"
    ELSE "ok"

HasEvents_always(events) == TRUE

\* StorageService.store, line 33: if events
HasEvents(events) == events # <<>>

\* StorageService.store(events) on the object of the latest StorageService(...):
\* line 33, then backend.store (JSONLStorageBackend.store, or
\* RemoteStorageBackend.store with the server answering resp)
StoreVia(op, events, resp) ==
    /\ storage_service.backend # "none"
    /\ Len(backendLog) < MaxStores
    /\ LET snap == [op |-> op, events |-> events, out |-> "ok", resp |-> -1,
                    file0 |-> file, posts0 |-> posts, log0 |-> backendLog]
       IN  IF ~HasEvents(events)
           THEN /\ st_last' = snap
                /\ UNCHANGED <<file, posts, backendLog>>
           ELSE IF storage_service.backend = "JSONLStorageBackend"
           THEN LET w == JsonlStore(file, events)
                IN  /\ file' = w.content
                    /\ st_last' = [snap EXCEPT !.out = w.out]
                    /\ backendLog' = Append(backendLog,
                           [backend |-> "jsonl", arg |-> storage_service.arg,
                            events |-> events, ok |-> w.out = "ok"])
                    /\ UNCHANGED posts
           ELSE LET out == BatchPost(events, resp)
                IN  /\ posts' = IF PostIsSent(events)
                                THEN Append(posts, [data |-> events]) ELSE posts
                    /\ st_last' = [snap EXCEPT !.out = out,
                                               !.resp = IF PostIsSent(events)
                                                        THEN resp.status ELSE -1]
                    /\ backendLog' = Append(backendLog,
                           [backend |-> "remote", arg |-> storage_service.arg,
                            events |-> events, ok |-> out = "ok"])
                    /\ UNCHANGED file
    /\ UNCHANGED <<storage_service, stOthers>>

\* StorageService.store(events), called directly
ServiceStore(events, resp) == StoreVia("store", events, resp)

\* the buffers _process_events may find
DrainInputs == {<<>>, <<1>>, <<2, 1>>, <<1, 2, 1, 2>>}

\* LogWorkerService._process_events, lines 92-97, on a queue that holds q:
\* get_batch, then store if the list is not empty (line 94)
ProcessEvents(q, resp) ==
    LET events == GetBatch(q, BatchMax).events
    IN  IF events # <<>>
        THEN StoreVia("process_events", events, resp)
        ELSE /\ storage_service.backend # "none"
             /\ st_last' = [op |-> "process_events", events |-> <<>>, out |-> "ok",
                            resp |-> -1, file0 |-> file, posts0 |-> posts,
                            log0 |-> backendLog]
             /\ UNCHANGED <<storage_service, file, posts, backendLog, stOthers>>

NextStorage ==
    \/ \E backend_type \in BackendTypes : StorageServiceNew(backend_type)
    \/ \E events \in Batches : \E resp \in Responses : ServiceStore(events, resp)
    \/ \E q \in DrainInputs : \E resp \in Responses : ProcessEvents(q, resp)

SpecStorage == Init /\ [][NextStorage]_vars

----------------------------------------------------------------------------
(* QLTrackerInitializer.configure and config.py *)

\* number of configure() calls explored
MaxConfigures == 2

\* the api_key and host arguments explored: None, the empty string, a value
ArgValues == {"none", "", "arg"}

\* the config_path arguments explored: None, the empty string, the path of a
\* file that does not exist, the path of a TOML file
ConfigPaths == {"none", "", "missing.toml", "trackconfig.toml"}

\* what the [tracker] table of the file provides ("none", 0: key absent): the
\* backend is [tracker.storage] backend, flush_interval_secs is
\* [tracker.queue] flush_interval_secs
FileTables == [api_key : {"none", "file"}, host : {"none", "file"},
               backend : {"none", "jsonl", "sqlite"},
               flush_interval_secs : {0, 1}]

NoTable == [api_key |-> "none", host |-> "none", backend |-> "none",
            flush_interval_secs |-> 0]

\* the truth value of an Optional[str]
Truthy(v) == v \notin {"none", ""}

\* TrackerConfig.update_from_dict, lines 36-67: the keys it reads are
\* log_to_file, log_file_path, pretty_print, enable_logging, log_level, queue
\* and storage; api_key and host are not among them
UpdateFromDict(config, table) ==
    [config EXCEPT !.storage_backend =
                       IF table.backend # "none" THEN table.backend ELSE @,
                   !.queue_flush_interval_secs =
                       IF table.flush_interval_secs # 0
                       THEN table.flush_interval_secs ELSE @]

\* whether Path(config_path).exists()
Exists(config_path) == config_path = "trackconfig.toml"

\* load_config, lines 85-107: the global _config after the call
LoadConfig(config, config_path, table) ==
    IF Exists(config_path) THEN UpdateFromDict(config, table) ELSE config

\* configure, lines 68-74 and 77-80, for one of _api_key / _host: prev is the
\* attribute before the call, loaded the attribute of the loaded config
Configured(prev, arg, config_path, loaded) ==
    LET from_file == IF Truthy(config_path) /\ Truthy(loaded) THEN loaded ELSE prev
    IN  IF Truthy(arg) THEN arg ELSE from_file

\* configure(api_key, host, config_path) with the file holding table
ConfigureCall(api_key, host, config_path, table) ==
    /\ cf.calls < MaxConfigures
    /\ (~Exists(config_path) => table = NoTable)
    /\ LET config == IF Truthy(config_path)
                     THEN LoadConfig(cf.config, config_path, table)
                     ELSE cf.config
       IN  cf' = [cf EXCEPT
                  !.api_key = Configured(cf.api_key, api_key, config_path, config.api_key),
                  !.host = Configured(cf.host, host, config_path, config.host),
                  !.config = config,
                  !.calls = cf.calls + 1,
                  !.last = [api_key |-> api_key, host |-> host, path |-> config_path,
                            file |-> table,
                            prev_api_key |-> cf.api_key, prev_host |-> cf.host]]
    /\ UNCHANGED <<pipeVars, gbVars, mgrVars, trVars, iniVars, stVars, fp>>

NextConfigure ==
    \E api_key \in ArgValues, host \in ArgValues, config_path \in ConfigPaths,
       table \in FileTables \cup {NoTable} :
        ConfigureCall(api_key, host, config_path, table)

SpecConfigure == Init /\ [][NextConfigure]_vars

----------------------------------------------------------------------------
(* QLTrackerInitializer.initialize_services called by one thread, after
   configure() calls *)

NetworkRequestNew_unchecked(base_url, api_key) == "ok"

\* NetworkRequestService.__init__, lines 13-14: the two assert statements
NetworkRequestNew(base_url, api_key) ==
    IF ~Truthy(base_url) \/ ~Truthy(api_key) THEN "AssertionError" ELSE "ok"

\* background_executor.initialize_services, lines 198-205: the StorageService
\* call; only the exact string "jsonl" gets output_path, every other
\* discriminator gets network_request and endpoint, which
\* JSONLStorageBackend.__init__ does not accept
WiredStorage(backend_type) ==
    LET b == CreateBackend(backend_type)
    IN  IF b = "JSONLStorageBackend" /\ backend_type # "jsonl" THEN "TypeError" ELSE b

\* background_executor.initialize_services, lines 189-212: the exception the
\* constructors raise, in the order of the calls, or "ok"
WireOutcome(host, api_key, backend_type) ==
    IF NetworkRequestNew(host, api_key) # "ok" THEN NetworkRequestNew(host, api_key)
    ELSE IF WiredStorage(backend_type) \in {"ValueError", "TypeError"}
    THEN WiredStorage(backend_type)
    ELSE "ok"

\* initialize_services, line 107: worker_interval_secs=3.0
WorkerIntervalSecs(config) == processing_interval_secs

\* number of initialize_services() calls explored
MaxInits == 2

\* initialize_services() on the Initializer, lines 91-119, with
\* background_executor.initialize_services (lines 189-228): nothing when
\* already wired; else the constructors run, and if none raises the four
\* services are registered, start_all_services is called, and the references
\* and _services_started are set
InitializeServices ==
    /\ cf.inits < MaxInits
    /\ LET out == IF AlreadyWired(services_started) THEN "noop"
                  ELSE WireOutcome(cf.host, cf.api_key, cf.config.storage_backend)
           n == created + 1
       IN  /\ cf' = [cf EXCEPT
                     !.inits = cf.inits + 1,
                     !.init = [out |-> out, services0 |-> services,
                               running0 |-> mgr_running, started0 |-> services_started,
                               config0 |-> cf.config,
                               api_key0 |-> cf.api_key, host0 |-> cf.host],
                     !.worker_interval =
                         IF out = "ok" THEN WorkerIntervalSecs(cf.config) ELSE @]
           /\ IF out = "ok"
              THEN /\ created' = n
                   /\ storage_service' =
                          [arg |-> cf.config.storage_backend,
                           backend |-> WiredStorage(cf.config.storage_backend),
                           exc |-> "none"]
                   /\ services' = services \o WiredOn(n, mgr_running)
                   /\ workers_started' = workers_started \cup
                          (IF AlreadyRunning(mgr_running) THEN {} ELSE StartedBy(services'))
                   /\ mgr_running' = TRUE
                   /\ event_queue' = n
                   /\ log_worker' = n
                   /\ services_started' = TRUE
                   /\ init_returned' = TRUE
              ELSE /\ init_returned' = (init_returned \/ out = "noop")
                   /\ UNCHANGED <<created, storage_service, services, workers_started,
                                  mgr_running, event_queue, log_worker, services_started>>
    /\ UNCHANGED <<pipeVars, gbVars, mgr_lock, mgr_pc, mgr_i, callLog, lastCall, reg, sd, sig,
                   tr_pc, tr_in, tr_func, tr_exc, tr_caller, tr_events,
                   instance, constructed, cls_lock, g_initializer, fields_set,
                   ini_configured, start_called, ini,
                   file, posts, backendLog, st_last, fp>>

\* the configure() calls explored before and between the wiring calls: each
\* argument given or not, no file or a file, whose table names both api_key
\* and host or neither
WiringArgs == {"none", "arg"}

WiringPaths == {"none", "trackconfig.toml"}

WiringTables == {table \in FileTables : (table.api_key = "none") <=> (table.host = "none")}

NextWiring ==
    \/ \E api_key \in WiringArgs, host \in WiringArgs, config_path \in WiringPaths,
          table \in WiringTables \cup {NoTable} :
           ConfigureCall(api_key, host, config_path, table)
    \/ InitializeServices

SpecWiring == Init /\ [][NextWiring]_vars

----------------------------------------------------------------------------
(* QLTrackerInitializer.stop() and start() on the wired pipeline, called by one
   thread: stop() calls, then start() calls, with the events put beforehand *)

\* join(timeout=10.0) in LogWorkerService.stop
JoinTimeout == 10

\* whether a loop thread at position pc can stay there longer than the join
\* waits: the wait lasts at most processing_interval_secs, the gets of
\* get_batch(timeout=0) do not block, and the store call (file or network)
\* has no time limit
MayOutlastJoin(pc) ==
    \/ pc = "store"
    \/ pc = "wait" /\ processing_interval_secs >= JoinTimeout

\* stop(), line 67: join returns when the thread has exited, or after the
\* timeout while the thread is still alive
JoinReturnTimed ==
    /\ thread # 0
    /\ ~Alive(thread) \/ MayOutlastJoin(threads[thread].pc)
    /\ JoinReturn

\* what the steps of stop() and start() on the Initializer leave alone
restartOthers == <<queue, event_count, new_event_signal, inserted, prod,
                   total_events_processed, storeLog, waitMark, owed, failMark, due,
                   services, mgr_lock, mgr_pc, mgr_i, reg, sd, sig,
                   gbVars, trVars, iniVars, extVars>>

\* Initializer.stop(), line 142: stop_all_services (lines 67-81) returns when
\* the manager is not running, else clears the flag and calls stop on the one
\* wired service that has it, the Worker (lines 63-67: the flag is cleared and
\* the thread joined); EventQueue, NetworkRequestService and StorageService
\* have neither stop nor force_flush
IniStop ==
    /\ ctl = "idle"
    /\ ~start_called
    /\ lastCall' = [op |-> "stop_all", acted |-> ~NotRunning(mgr_running),
                    prev |-> LatestToggle]
    /\ IF NotRunning(mgr_running)
       THEN /\ callLog' = <<>>
            /\ UNCHANGED <<mgr_running, running, ctl, wk_last, drains>>
       ELSE /\ mgr_running' = FALSE
            /\ callLog' = <<[op |-> "stop", svc |-> Len(services)]>>
            /\ running' = FALSE
            /\ ctl' = IF thread # 0 /\ Alive(thread) THEN "joining" ELSE "idle"
            /\ wk_last' = IF running THEN "stop_running" ELSE "stop"
            /\ drains' = IF running THEN [t \in Slots |-> IF Alive(t) THEN 0 ELSE -1]
                          ELSE drains
    /\ UNCHANGED <<thread, threads, restartOthers>>

\* Initializer.start(), lines 128-133: the pipeline is wired, so
\* start_all_services (lines 52-63) is called; it returns when the manager is
\* running, else sets the flag and calls start on the Worker (lines 52-58)
IniStart ==
    /\ ctl = "idle"
    /\ start_called' = TRUE
    /\ lastCall' = [op |-> "start_all", acted |-> ~AlreadyRunning(mgr_running),
                    prev |-> LatestToggle]
    /\ IF AlreadyRunning(mgr_running)
       THEN /\ callLog' = <<>>
            /\ UNCHANGED <<mgr_running, running, thread, threads, wk_last, drains>>
       ELSE /\ mgr_running' = TRUE
            /\ callLog' = <<[op |-> "start", svc |-> Len(services)]>>
            /\ IF StartReturnsEarly(running)
               THEN /\ wk_last' = "start_running"
                    /\ UNCHANGED <<running, thread, threads, drains>>
               ELSE /\ \E t \in Slots : ~Alive(t)
                    /\ wk_last' = "start"
                    /\ running' = TRUE
                    /\ thread' = FreeSlot
                    /\ threads' = [threads EXCEPT ![FreeSlot].pc = "loop"]
                    /\ drains' = [t \in Slots |-> -1]
    /\ UNCHANGED <<ctl, instance, constructed, cls_lock, g_initializer, fields_set,
                   ini_configured, event_queue, log_worker, created, workers_started,
                   init_returned, ini,
                   queue, event_count, new_event_signal, inserted, prod,
                   total_events_processed, storeLog, waitMark, owed, failMark, due,
                   services, mgr_lock, mgr_pc, mgr_i, reg, sd, sig,
                   gbVars, trVars, extVars>>

\* the pipeline as initialize_services() has wired and started it (lines
\* 189-226): the four services registered, the manager and the Worker running,
\* the loop thread at its first test; since then k events were put, one put
\* after the other
InitRestart ==
    /\ \E k \in {0, 1, BatchMax + 1} :
        /\ queue = Iota(k)
        /\ inserted = k
        /\ event_count = k
        /\ new_event_signal = (k > WakeThreshold)
        /\ owed = IF k > WakeThreshold THEN k ELSE 0
    /\ prod = [p \in Producers |-> [pc |-> "idle", current_size |-> 0]]
    /\ running = TRUE
    /\ thread = 1
    /\ threads = [t \in WorkerThreads |-> IF t = 1 THEN [NoThread EXCEPT !.pc = "loop"]
                                          ELSE NoThread]
    /\ total_events_processed = 0
    /\ storeLog = <<>>
    /\ ctl = "idle"
    /\ waitMark = -1
    /\ failMark = -1
    /\ wk_last = "start"
    /\ drains = [t \in WorkerThreads |-> -1]
    /\ due = 0
    /\ InitGb
    /\ services = WiredServices(1)
    /\ mgr_running = TRUE
    /\ mgr_lock = FALSE
    /\ mgr_pc = "idle"
    /\ mgr_i = 0
    /\ callLog = <<[op |-> "start", svc |-> 4]>>
    /\ lastCall = [op |-> "start_all", acted |-> TRUE, prev |-> "none"]
    /\ reg = [pc |-> "idle", svc |-> NoService]
    /\ sd = NoShutdown
    /\ sig = "none"
    /\ tr_pc = "idle"
    /\ tr_in = NoInputs
    /\ tr_func = NoOutcome
    /\ tr_exc = "none"
    /\ tr_caller = NoOutcome
    /\ tr_events = <<>>
    /\ services_started = TRUE
    /\ instance = 1
    /\ constructed = 1
    /\ cls_lock = 0
    /\ g_initializer = 1
    /\ fields_set = TRUE
    /\ ini_configured = TRUE
    /\ event_queue = 1
    /\ log_worker = 1
    /\ created = 1
    /\ workers_started = {1}
    /\ start_called = FALSE
    /\ init_returned = TRUE
    /\ ini = [th \in Callers |-> NoCall]
    /\ InitExt

NextRestart ==
    \/ IniStop
    \/ JoinReturnTimed
    \/ IniStart
    \/ \E t \in WorkerThreads : LoopTest(t)
    \/ \E t \in WorkerThreads : WakeBySignal(t)
    \/ \E t \in WorkerThreads : WakeByTimeout(t)
    \/ \E t \in WorkerThreads : ClearSignal(t)
    \/ \E t \in WorkerThreads : GetFirst(t)
    \/ \E t \in WorkerThreads : GetMore(t)
    \/ \E t \in WorkerThreads : StoreReturns(t)
    \/ \E t \in WorkerThreads : CounterAssign(t)
    \/ \E t \in WorkerThreads : StoreRaises(t)

\* Every loop thread goes on running (as in SpecWorker), and the join returns
\* once the thread has exited or the timeout has passed.
SpecRestart ==
    /\ InitRestart
    /\ [][NextRestart]_vars
    /\ \A t \in WorkerThreads : WF_vars(ThreadStep(t))
    /\ WF_vars(JoinReturnTimed)

----------------------------------------------------------------------------
(* Properties of the pipeline *)

\* the events passed to backend.store, in call order
Passed == Concat([i \in 1..Len(storeLog) |-> storeLog[i].events])

\* the events some loop thread has dequeued and not yet handed to store
InFlight == UNION {Range(threads[t].events) : t \in ThreadIds}

NoStoreFailure == \A i \in 1..Len(storeLog) : storeLog[i].ok

Drained == queue = <<>> /\ InFlight = {}

\* C1: with one Worker and no store failure, once the queue has been drained
\* the batches passed to store, concatenated in call order, are exactly the
\* inserted events in insertion order, each once.
C1_DeliveredInInsertionOrder ==
    (NoStoreFailure /\ Drained) => Passed = Iota(inserted)

\* C1 witness: several events went through several store calls and the queue
\* is drained.
C1_Witness ==
    /\ NoStoreFailure
    /\ Drained
    /\ Len(storeLog) >= 2
    /\ inserted >= BatchMax + 1

\* C2: the events of a batch whose store raised are not back in the queue and
\* are in no other store call.
C2_FailedBatchNotRetried ==
    \A i \in 1..Len(storeLog) :
        ~storeLog[i].ok =>
            \A e \in Range(storeLog[i].events) :
                /\ e \notin Range(queue)
                /\ e \notin InFlight
                /\ \A j \in 1..Len(storeLog) :
                       j # i => e \notin Range(storeLog[j].events)

\* C2 witness: store raised for a batch and the Worker has run a later cycle
\* with a store call.
C2_Witness ==
    \E i \in 1..Len(storeLog) :
        /\ ~storeLog[i].ok
        /\ i < Len(storeLog)

\* C3: after store has raised, the loop thread of a running Worker is alive.
C3_WorkerSurvivesStoreFailure ==
    (failMark >= 0 /\ running) => (thread # 0 /\ Alive(thread))

\* C3 witness: an event inserted after store raised has been passed to store
\* by a later call that returned.
C3_Witness ==
    /\ failMark >= 0
    /\ \E j \in 1..Len(storeLog) :
        /\ storeLog[j].ok
        /\ \E e \in Range(storeLog[j].events) : e > failMark

\* C5: when WakeThreshold events have been put (one put after the other), with
\* no get in between, into an empty queue while the Worker is blocked in wait,
\* the wake signal is set.
C5_SignalSetAfterThresholdPuts ==
    (/\ waitMark >= 0
     /\ inserted - waitMark = WakeThreshold
     /\ \A p \in Producers : prod[p].pc = "idle")
        => new_event_signal

\* C6: no set of the signal is lost by the Worker's clear: when the Worker
\* waits with the signal clear, no event that was in the queue at an unseen
\* set of the signal is still in the queue.
C6_NoLostWakeup ==
    \A t \in ThreadIds :
        (threads[t].pc = "wait" /\ ~new_event_signal) => owed = 0

\* the buffer holds the events in the order of their insertion
InInsertionOrder(q) == \A i \in 1..Len(q), j \in 1..Len(q) : i < j => q[i] < q[j]

\* C7: the queue never holds more than maxsize events, every inserted event
\* is in the buffer, in flight or passed to store (none dropped or
\* overwritten), and insertions go to the tail.
C7_QueueNeverExceedsCapacity ==
    /\ Len(queue) <= maxsize
    /\ InInsertionOrder(queue)
    /\ \A e \in 1..inserted : e \in Range(queue) \cup InFlight \cup Range(Passed)

\* C7 witness: a put is blocked on a full queue.
C7_Witness ==
    /\ Len(queue) = maxsize
    /\ \E p \in Producers : prod[p].pc = "blocked"

\* C8: with no concurrent access, get_batch(max_size = m, timeout) with
\* m >= 1 on a queue of k events returns the first min(k, m) events in order
\* and leaves the other events in order; on an empty queue it returns the
\* empty list and changes nothing.
C8_GetBatchTakesPrefix ==
    (gb_pc = "returned" /\ gb_max >= 1) =>
        /\ gb_out = SubSeq(gb_in, 1, Min(Len(gb_in), gb_max))
        /\ queue = SubSeq(gb_in, Min(Len(gb_in), gb_max) + 1, Len(gb_in))

\* C8 witness: a call that took some of the events and left others.
C8_Witness ==
    /\ gb_pc = "returned"
    /\ gb_max >= 2
    /\ Len(gb_out) = gb_max
    /\ queue # <<>>

----------------------------------------------------------------------------
(* Properties of the @track wrappers *)

\* C4: the caller of a @track-wrapped function observes exactly the outcome of
\* the wrapped function (its return value, or the exception it raised).
C4_CallerSeesFunctionOutcome ==
    tr_pc = "done" => tr_caller = tr_func

----------------------------------------------------------------------------
(* Properties of the lifecycle manager *)

\* the positions of callLog that name service x
CallsOf(x) == {j \in 1..Len(callLog) : callLog[j].svc = x}

Completed(op) == mgr_pc = "idle" /\ lastCall.op = op /\ lastCall.acted

\* C9: a start_all_services that found the manager not running has invoked
\* start, and nothing else, once on every registered service that has start,
\* in registration order, also on those registered after a service whose
\* start raised.
C9_StartAllStartsEveryService ==
    Completed("start_all") =>
        /\ \A j \in 1..Len(callLog) : callLog[j].op = "start"
        /\ \A j \in 1..Len(callLog), k \in 1..Len(callLog) :
               j < k => callLog[j].svc < callLog[k].svc
        /\ \A x \in 1..Len(services) :
               (services[x].start # "absent") <=> (CallsOf(x) # {})

\* C9 witness: start_all_services has completed on three services, one of
\* which raised in start before another one that has start.
C9_Witness ==
    /\ Completed("start_all")
    /\ Len(services) = 3
    /\ \E x \in 1..Len(services), y \in 1..Len(services) :
        /\ x < y
        /\ services[x].start = "raises"
        /\ services[y].start # "absent"

\* C10: a stop_all_services that found the manager running has visited the
\* registry in strictly reverse registration order and has invoked, once, stop
\* on each service that has stop, force_flush on each service that has
\* force_flush but no stop, and nothing on the others, also on the services
\* visited after one whose stop raised.
C10_StopAllReverseOrder ==
    Completed("stop_all") =>
        /\ \A j \in 1..Len(callLog), k \in 1..Len(callLog) :
               j < k => callLog[j].svc > callLog[k].svc
        /\ \A x \in 1..Len(services) :
               LET ops == {callLog[j].op : j \in CallsOf(x)}
               IN  /\ services[x].stop # "absent" => ops = {"stop"}
                   /\ (services[x].stop = "absent" /\ services[x].force_flush # "absent")
                          => ops = {"force_flush"}
                   /\ (services[x].stop = "absent" /\ services[x].force_flush = "absent")
                          => ops = {}

\* C10 witness: stop_all_services has completed on a registry in which a
\* service whose stop raised is registered after a service that has only
\* force_flush.
C10_Witness ==
    /\ Completed("stop_all")
    /\ \E x \in 1..Len(services), y \in 1..Len(services) :
        /\ x < y
        /\ services[y].stop = "raises"
        /\ services[x].stop = "absent"
        /\ services[x].force_flush # "absent"

\* C11: a start_all_services called when the latest of start_all_services /
\* stop_all_services before it was a start_all_services invokes no method of
\* any service, and so does a stop_all_services called when no
\* start_all_services has been called since the latest stop_all_services (or
\* ever).
C11_StartAllStopAllIdempotent ==
    /\ (lastCall.op = "start_all" /\ lastCall.prev = "start_all")
           => (callLog = <<>> /\ mgr_pc = "idle" /\ mgr_running)
    /\ (lastCall.op = "stop_all" /\ lastCall.prev \in {"none", "stop_all"})
           => (callLog = <<>> /\ mgr_pc = "idle" /\ ~mgr_running)

\* C11 witness: a second start_all_services in a row has returned on a registry
\* that holds a service with start.
C11_Witness ==
    /\ lastCall.op = "start_all"
    /\ lastCall.prev = "start_all"
    /\ \E x \in 1..Len(services) : services[x].start # "absent"

----------------------------------------------------------------------------
(* Properties of the Worker under start() and stop() *)

\* the state of the Worker object and of its queue
WorkerState == <<running, thread, threads, queue, total_events_processed, storeLog>>

\* C12: a start() that finds the Worker running creates no thread and changes
\* nothing, and a stop() that finds the Worker not running (a second stop()
\* in a row) changes nothing.
C12_StartStopIdempotent ==
    [][/\ (WorkerStart /\ running) => UNCHANGED WorkerState
       /\ (WorkerStop /\ ~running) => UNCHANGED WorkerState]_vars

\* C12 witness: start() was called on a running Worker whose thread is alive.
C12_Witness ==
    /\ wk_last = "start_running"
    /\ running
    /\ thread # 0
    /\ Alive(thread)

\* C19: after a stop() that found the Worker running, and until the next
\* start(), a loop thread begins at most one more get_batch and then exits,
\* and the join of stop() returns, whether or not the thread has exited.
\* (A thread's count of further get_batch calls is dropped only when the
\* thread exits or start() is called, so "always eventually no count is
\* pending" says that every stopped thread exits or is overtaken by a start();
\* likewise for the join, ctl being "joining" or "idle".)
StopSettled(t) == drains[t] < 0 \/ ~Alive(t) \/ wk_last \in {"start", "start_running"}

C19_StopEndsLoopThread ==
    /\ [](\A t \in WorkerThreads : drains[t] <= 1)
    /\ [][\A t \in WorkerThreads :
              (drains[t] >= 0 /\ drains'[t] < 0)
                  => (~Alive(t) \/ wk_last \in {"start", "start_running"})']_vars
    /\ []<>(\A t \in WorkerThreads : StopSettled(t))
    /\ []<>(ctl = "idle")

\* C19 witness: stop() has returned while the loop thread, which it found
\* alive, is still in the store call of its one further drain cycle.
C19_Witness ==
    /\ wk_last = "stop_running"
    /\ ctl = "idle"
    /\ \E t \in WorkerThreads :
        /\ drains[t] = 1
        /\ threads[t].pc = "store"

\* the loop threads that are inside get_batch
Draining == {t \in WorkerThreads : threads[t].pc \in {"get_first", "get_more"}}

\* C20: at most one loop thread of the Worker is inside get_batch at any time.
C20_AtMostOneLoopThread == Cardinality(Draining) <= 1

\* a service's start, stop or force_flush is being executed by
\* start_all_services or stop_all_services
InServiceCall ==
    \/ /\ mgr_pc = "starting"
       /\ mgr_i <= Len(services)
       /\ services[StartVisits(Len(services), mgr_i)].start # "absent"
    \/ /\ mgr_pc = "stopping"
       /\ mgr_i <= Len(services)
       /\ StopCalls(services[StopVisits(Len(services), mgr_i)]) # <<>>

\* C17: while start_all_services or stop_all_services executes a method of a
\* service, the manager's lock is not held, and an add_service of another
\* thread is not waiting for it.
C17_LockNotHeldDuringServiceCall ==
    InServiceCall => (~mgr_lock /\ reg.pc # "waiting")

\* C18: once the signal handler has been entered, it reaches exit(0) and the
\* process terminates.
C18_SignalHandlerTerminates == (sig = "handler") ~> (sig = "exited")

----------------------------------------------------------------------------
(* Properties of the Initializer *)

\* C13: an initialize_services() call on the Initializer that begins after
\* another such call has returned normally stops at its first test: it creates
\* no pipeline, registers nothing and assigns no reference.
C13_SecondInitializeIsNoOp ==
    \A th \in Callers :
        (ini[th].op = "initialize_services" /\ ini[th].after_ok) =>
            /\ ini[th].pc \in {"is_check", "ready"}
            /\ ini[th].mine = 0
            /\ ini[th].out = "none"

\* C13 witness: a thread has wired the pipeline with its first
\* initialize_services() and its second one has returned.
C13_Witness ==
    \E th \in Callers :
        /\ ini[th].op = "initialize_services"
        /\ ini[th].after_ok
        /\ ini[th].pc = "ready"
        /\ ini[th].calls = 2
        /\ created = 1
        /\ event_queue = 1
        /\ log_worker = 1
        /\ Len(services) = 4

\* C14: at most one QLTrackerInitializer is constructed, and all threads that
\* have obtained an instance, and the global _initializer, hold the same one.
C14_OneInstance ==
    /\ constructed <= 1
    /\ \A th \in Callers : ini[th].inst \in {0, instance}
    /\ g_initializer \in {0, instance}

\* C14 witness: a thread that saw no instance at the unlocked test finds,
\* under the lock, the instance another thread made, and that other thread
\* holds it.
C14_Witness ==
    \E a \in Callers, b \in Callers :
        /\ ini[a].pc = "new_check2"
        /\ instance # 0
        /\ ini[b].inst = instance

\* C15: at most one pipeline is created, and once the Initializer is wired
\* the queue get_event_queue() returns belongs to a pipeline whose Worker has
\* been started.
C15_WiredExactlyOnce ==
    /\ created <= 1
    /\ Len(services) <= 4
    /\ services_started => event_queue \in workers_started

\* C16: while start() has not been called on the Initializer, the lifecycle
\* manager is not running and no Worker has been started.
C16_NotStartedBeforeStart ==
    ~start_called => (~mgr_running /\ workers_started = {})

----------------------------------------------------------------------------
(* Properties of the storage services *)

\* C21: backend.store is never called with an empty batch: a _process_events
\* that drains nothing and a StorageService.store of an empty list return
\* normally without a backend call, and leave the file and the requests sent
\* as they were.
C21_NoEmptyBatchStored ==
    /\ \A i \in 1..Len(backendLog) : backendLog[i].events # <<>>
    /\ (st_last.op # "none" /\ st_last.events = <<>>) =>
           /\ st_last.out = "ok"
           /\ backendLog = st_last.log0
           /\ file = st_last.file0
           /\ posts = st_last.posts0

\* C21 witness: StorageService.store was called with an empty list on a
\* service whose backend had stored a batch before.
C21_Witness ==
    /\ st_last.op = "store"
    /\ st_last.events = <<>>
    /\ backendLog # <<>>

\* the discriminators that are neither "jsonl" nor "remote" in any letter case
Unsupported == {"sqlite", "local-file"}

\* C22: StorageService(backend_type) with a discriminator other than the two
\* supported ones raises ValueError and yields no object, so that no store
\* call can follow on it.
C22_UnknownBackendRaises ==
    storage_service.arg \in Unsupported =>
        /\ storage_service.exc = "ValueError"
        /\ storage_service.backend = "none"
        /\ ~ENABLED (\E events \in Batches : \E resp \in Responses :
                         ServiceStore(events, resp))

\* C22 witness: a construction with an unsupported discriminator has raised
\* after an earlier service had stored a batch.
C22_Witness ==
    /\ storage_service.arg \in Unsupported
    /\ storage_service.exc = "ValueError"
    /\ backendLog # <<>>

RECURSIVE SplitLines(_, _)
\* the lines of a text: the characters before each line feed (cur collects
\* the line under way)
SplitLines(content, cur) ==
    IF content = <<>> THEN (IF cur = <<>> THEN <<>> ELSE <<cur>>)
    ELSE IF Head(content) = "LF" THEN <<cur>> \o SplitLines(Tail(content), <<>>)
    ELSE SplitLines(Tail(content), Append(cur, Head(content)))

\* the calls of JSONLStorageBackend.store, in call order
FileCalls == SelectSeq(backendLog, LAMBDA c : c.backend = "jsonl")

\* the events those calls were given, in call order and batch order
FileEvents == Concat([i \in 1..Len(FileCalls) |-> FileCalls[i].events])

IsPrefix(a, b) == Len(a) <= Len(b) /\ a = SubSeq(b, 1, Len(a))

\* C23: when every JSONLStorageBackend.store call so far has returned
\* normally, the file holds exactly one line per stored event, the JSON text
\* of that event, in call order and batch order, whichever backend objects
\* made the calls; and what the file held before the latest store call is
\* still its beginning.
C23_FileHoldsOneLinePerEvent ==
    /\ (\A i \in 1..Len(FileCalls) : FileCalls[i].ok) =>
           SplitLines(file, <<>>) = [i \in 1..Len(FileEvents) |-> Dumps(FileEvents[i])]
    /\ IsPrefix(st_last.file0, file)

\* C23 witness: two services created one after the other on the same path
\* have each stored a batch, one of them of two events, one of which holds a
\* line feed.
C23_Witness ==
    /\ Len(FileCalls) = 2
    /\ FileCalls[1].ok
    /\ FileCalls[2].ok
    /\ FileCalls[1].arg # FileCalls[2].arg
    /\ Len(SplitLines(file, <<>>)) >= 3
    /\ 2 \in Range(FileEvents)

\* C24: a RemoteStorageBackend.store call that the server answered has sent
\* exactly one POST, whose body is the batch in order, and has returned
\* normally if and only if the status is 2xx.
C24_RemoteStorePostsOnce ==
    st_last.resp >= 100 =>
        /\ posts = Append(st_last.posts0, [data |-> st_last.events])
        /\ (st_last.out = "ok") <=> (200 <= st_last.resp /\ st_last.resp < 300)

----------------------------------------------------------------------------
(* Latency and progress of the pipeline *)

\* C25: while the Worker is running and no store call has raised, the cycle
\* that follows a timeout of the Worker's wait removes every event that was in
\* the queue when the wait timed out, whatever their number: when that cycle
\* is over, none of them is still in the queue.
C25_DrainedWithinOneInterval ==
    \A t \in ThreadIds :
        (threads[t].pc = "loop" /\ running /\ NoStoreFailure) => due = 0

C27_CountEqualsInserted ==
    (\A p \in Producers : prod[p].pc \in {"idle", "signal", "blocked"})
        => event_count = inserted

----------------------------------------------------------------------------
(* Properties of configure() *)

\* the value the claim names: the explicit argument when one is given, else
\* the value of the configuration file when the file provides one, else the
\* value configured before
Precedence(arg, from_file, prev) ==
    IF Truthy(arg) THEN arg
    ELSE IF Truthy(from_file) THEN from_file
    ELSE prev

\* C28: after configure(api_key, host, config_path) the credential is the
\* api_key argument when one is given, otherwise the api_key of the
\* configuration file when the file provides one, otherwise the credential
\* configured before; and likewise for the sink address and host.
C28_ConfigurePrecedence ==
    cf.calls > 0 =>
        /\ cf.api_key = Precedence(cf.last.api_key, cf.last.file.api_key,
                                   cf.last.prev_api_key)
        /\ cf.host = Precedence(cf.last.host, cf.last.file.host, cf.last.prev_host)

----------------------------------------------------------------------------
(* Properties of the queue under two consumers *)

\* every event a get has returned, in the lists of the store calls made, of
\* the loop threads and of the force_process caller
Taken ==
    Passed \o Concat([t \in ThreadIds |-> threads[t].events]) \o fp.events

\* C29: with force_process running beside the Worker loop, every event is
\* returned by at most one get: no event is in two batches, twice in one
\* batch, or in a batch and still in the queue.
C29_EachEventTakenOnce ==
    /\ \A i \in 1..Len(Taken), j \in 1..Len(Taken) : i # j => Taken[i] # Taken[j]
    /\ Range(Taken) \cap Range(queue) = {}

\* C29 witness: the loop thread and the force_process caller each hold a
\* batch they have drained from the same queue, and events remain.
C29_Witness ==
    /\ fp.events # <<>>
    /\ \E t \in ThreadIds : threads[t].events # <<>>
    /\ queue # <<>>

----------------------------------------------------------------------------
(* The Worker after a store failure *)

\* C30: when a store call raises inside a cycle of the Worker, the loop
\* thread goes to the 1-second backoff (time.sleep(1.0)) before it tests the
\* loop condition and waits on the wake signal again.
C30_BackoffAfterStoreFailure ==
    [][\A t \in ThreadIds : StoreRaises(t) => threads'[t].pc = "backoff"]_vars

----------------------------------------------------------------------------
\* the events of the batches for which store returned normally
StoredOk == Concat([i \in 1..Len(storeLog) |->
                        IF storeLog[i].ok THEN storeLog[i].events ELSE <<>>])

\* a thread is between the return of store and the assignment of line 97
Counting == (\E t \in Slots : threads[t].pc = "add") \/ fp.pc = "add"

\* C31: whenever no thread is in the middle of updating the counter,
\* total_events_processed is the number of events in the batches for which
\* store returned normally (a batch whose store raised adds nothing).
C31_TotalCountsStoredEvents ==
    ~Counting => total_events_processed = Len(StoredOk)

----------------------------------------------------------------------------
\* the Worker was never started: no thread takes events or clears the signal
NoConsumer == thread = 0 /\ fp.pc = "idle" /\ fp.calls = 0

\* C32: with no consumer, once every put begun has completed and the queue
\* holds more events than the wake threshold, the wake signal is set.
C32_SignalSetAboveThreshold ==
    (/\ NoConsumer
     /\ \A p \in Producers : prod[p].pc = "idle"
     /\ Len(queue) > WakeThreshold)
        => new_event_signal

----------------------------------------------------------------------------
\* the interval the configuration gives: the flush_interval_secs a loaded
\* file has set, else the default of 3 seconds (the files explored never set
\* the value TrackerConfig() starts with)
ConfiguredInterval(config) ==
    IF config.queue_flush_interval_secs # DefaultConfig.queue_flush_interval_secs
    THEN config.queue_flush_interval_secs
    ELSE 3

\* C33: the Worker the wiring created waits with a timeout equal to the
\* interval of the configuration in force when it was created, and with 3
\* seconds only when no interval was configured.
C33_WorkerUsesConfiguredInterval ==
    cf.init.out = "ok" => cf.worker_interval = ConfiguredInterval(cf.init.config0)

----------------------------------------------------------------------------
\* C34: a thread to which QLTrackerInitializer() or get_initializer() has
\* returned the instance holds an instance whose attributes have all been
\* assigned.
C34_InstanceFullyInitialized ==
    \A th \in Callers : ini[th].inst # 0 => fields_set

----------------------------------------------------------------------------
\* the exceptions with which initialize_services() ends
WiringErrors == {"AssertionError", "ValueError", "TypeError"}

\* the latest initialize_services() call was made on an Initializer not yet
\* wired, with no credential, no sink address, or a storage backend that
\* create_backend does not know
BadWiringInputs ==
    /\ cf.init.out # "none"
    /\ ~cf.init.started0
    /\ \/ ~Truthy(cf.init.api_key0)
       \/ ~Truthy(cf.init.host0)
       \/ CreateBackend(cf.init.config0.storage_backend) = "ValueError"

----------------------------------------------------------------------------
\* C36: while the Worker is stopped and stop() has returned, the queue keeps
\* the events it holds, unchanged; and once start() has been called, every
\* event in the queue is eventually passed to store.
C36_StopKeepsQueueRestartDrains ==
    /\ [][(~running /\ ctl = "idle") => queue' = queue]_vars
    /\ \A e \in 1..(BatchMax + 1) :
           (start_called /\ e \in Range(queue)) ~> (e \in Range(Passed))

\* C36 witness: stop() stopped the Worker, the start() after it started the
\* Worker again, nothing was passed to store before, and the loop thread now
\* calls store with the first events of the queue that stayed through the stop.
C36_Witness ==
    /\ lastCall = [op |-> "start_all", acted |-> TRUE, prev |-> "stop_all"]
    /\ wk_last = "start"
    /\ storeLog = <<>>
    /\ \E t \in WorkerThreads :
        /\ threads[t].pc = "store"
        /\ threads[t].events = Iota(BatchMax)
    /\ queue = <<BatchMax + 1>>

----------------------------------------------------------------------------
\* the services that were registered while the manager was running
LateServices == {x \in 1..Len(services) : services[x].late}

StartOf(x) == [op |-> "start", svc |-> x]

\* C37: the start of a service that was registered while the manager was
\* running is invoked only by a start_all_services that follows a
\* stop_all_services (not by the registration, not by a start_all_services
\* called while running); that start_all_services does invoke it, and the
\* stop_all_services before it invokes the service's stop.
C37_LateServiceStartedAfterRestart ==
    /\ [][\A x \in LateServices :
              (StartOf(x) \in Range(callLog') /\ StartOf(x) \notin Range(callLog))
                  => (lastCall.op = "start_all" /\ lastCall.prev = "stop_all")]_vars
    /\ [](Completed("start_all") =>
              \A x \in LateServices :
                  services[x].start # "absent" => StartOf(x) \in Range(callLog))
    /\ [](Completed("stop_all") =>
              \A x \in LateServices :
                  services[x].stop # "absent"
                      => [op |-> "stop", svc |-> x] \in Range(callLog))

\* C37 witness: a service that has start and stop was registered while the
\* manager was running, and the start_all_services that followed a
\* stop_all_services has started it.
C37_Witness ==
    /\ Completed("start_all")
    /\ lastCall.prev = "stop_all"
    /\ \E x \in LateServices :
        /\ services[x].start = "ok"
        /\ services[x].stop = "ok"
        /\ StartOf(x) \in Range(callLog)

----------------------------------------------------------------------------
NoDuplicates(s) == \A i, j \in 1..Len(s) : s[i] = s[j] => i = j

\* C38: within one running period of the manager, stop is invoked at most
\* once on each registered service and each shutdown hook is invoked at most
\* once, whatever the order of explicit stop_all_services calls, the signal
\* handler and the atexit call of _shutdown.
C38_StopAndHooksAtMostOnce ==
    /\ NoDuplicates(sd.stopLog)
    /\ NoDuplicates(sd.hookLog)

\* C38 witness: the signal handler stopped the services and ran both hooks,
\* exit(0) followed, and the atexit call of _shutdown has come and gone.
C38_Witness ==
    /\ sig = "exited"
    /\ sd.atexit = "done"
    /\ sd.hookLog = <<1, 2>>
    /\ Len(sd.stopLog) >= 2

----------------------------------------------------------------------------
\* C39: when a call of a @track-wrapped function with logging enabled is
\* over, it has enqueued at most one event, and an event it enqueued has
\* is_success true exactly when the wrapped function returned normally.
C39_OneEventSuccessIffReturned ==
    (tr_pc = "done" /\ tr_in.enable_logging) =>
        /\ Len(tr_events) <= 1
        /\ \A i \in 1..Len(tr_events) :
               tr_events[i].is_success <=> (tr_func.kind = "return")

====
